---- MODULE Spec2Model ----
(***************************************************************************)
(* Model of the bounding-box geometry of the VQA annotation tool:          *)
(* gui/video_canvas.py (VideoCanvas), gui/bbox_dialog.py                   *)
(* (BBoxAnnotationDialog) and the parts of gui/main_window.py (MainWindow) *)
(* that drive them.                                                        *)
(*                                                                         *)
(* Python floats are modelled by exact rationals [n, d] (d > 0, reduced);  *)
(* angles are rationals in units of pi.  int(round(v)) is Python 3's       *)
(* round-half-to-even.  A value that Python leaves as None is the empty    *)
(* sequence <<>>, a present value v is <<v>> (or the tuple itself for      *)
(* points and sizes).                                                      *)
(***************************************************************************)
EXTENDS Integers, Sequences, FiniteSets, TLC

VARIABLES
    \* ---- video / view (VideoCanvas) ----
    frame_loaded,          \* current_frame_data is not None
    original_width,        \* set by set_frame from the decoded frame
    original_height,
    current_frame,
    canvas_size,           \* self.size() / self.rect(): <<width, height>>
    pixmap,                \* self.pixmap(): <<>> or <<width, height>>
    scale_factor,          \* rational
    \* ---- 360 mode ----
    is_360_mode,           \* VideoCanvas.is_360_mode
    main_is_360_mode,      \* MainWindow.is_360_mode
    \* ---- annotation session ----
    bbox_mode,
    annotation_active,     \* MainWindow.current_annotation_data is not None
    \* ---- pointer device ----
    left_down,             \* the left mouse button is held down
    \* ---- draw gesture ----
    is_drawing,
    start_point,           \* canvas point <<x, y>> or <<>>
    end_point,
    \* ---- edit gesture ----
    edit_mode,
    resize_handle,         \* "None", "move", "corner_tl", ...
    move_start_padded,     \* <<>> or padded point
    resize_start_padded,
    original_bbox,         \* <<>> or <<copy of a box record>>
    selected_bbox,         \* 0 (None) or the identity of a box object
    selected_bbox_index,   \* -1 (None) or an index (0-based, as in Python)
    \* ---- box store ----
    heap,                  \* box objects: identity -> record (dicts are shared by reference)
    frame_bboxes,          \* frame index -> sequence of box identities
    \* ---- outcome of the last handler ----
    exc,                   \* "none" or the exception that escaped it
    saved,                 \* <<>> or <<result of get_current_annotation_with_qa>>
    printed,               \* <<>> or the "BBox too small" report the last handler printed: <<w, h>>
    \* ---- direct calls of the geometry methods ----
    fn_op,
    fn_in,
    fn_out

videoVars == <<frame_loaded, original_width, original_height, current_frame>>
viewVars  == <<canvas_size, pixmap, scale_factor>>
modeVars  == <<is_360_mode, main_is_360_mode>>
sessVars  == <<bbox_mode, annotation_active>>
drawVars  == <<left_down, is_drawing, start_point, end_point>>
editVars  == <<edit_mode, resize_handle, move_start_padded, resize_start_padded, original_bbox>>
selVars   == <<selected_bbox, selected_bbox_index>>
boxVars   == <<heap, frame_bboxes>>
fnVars    == <<fn_op, fn_in, fn_out>>

vars == <<videoVars, viewVars, modeVars, sessVars, drawVars, editVars, selVars,
          boxVars, exc, saved, printed, fnVars>>

----------------------------------------------------------------------------
(* Bounds of the model.                                                    *)

\* Width and height of the decoded video frames (a 2:1 panorama).
VideoWidth == 48
VideoHeight == 24
\* Number of frames of the loaded video.
NumFrames == 2
\* Width of the frames of a second, non-panoramic video (same height).
FlatVideoWidth == 32
\* Largest width of the frames create_360_padded_image is called on by itself.
MaxImageWidth == 8

----------------------------------------------------------------------------
(* Program constants.                                                      *)

\* PADDING_RATIO = 0.25 = 1 / PADDING_RATIO_DEN
PADDING_RATIO_DEN == 4
\* the 10-pixel size floor of complete_new_bbox_drawing and handle_bbox_resize
MIN_BOX_SIZE == 10
CORNER_THRESHOLD == 15
EDGE_THRESHOLD == 10

----------------------------------------------------------------------------
(* Arithmetic helpers.                                                     *)

Min(a, b) == IF a <= b THEN a ELSE b
Max(a, b) == IF a >= b THEN a ELSE b
Abs(a) == IF a < 0 THEN -a ELSE a

RECURSIVE Gcd(_, _)
Gcd(a, b) == IF b = 0 THEN a ELSE Gcd(b, a % b)

\* The rational n/d in lowest terms with a positive denominator.
Rat(n, d) ==
    LET s == IF d < 0 THEN -1 ELSE 1
        g == Gcd(Abs(n), Abs(d))
    IN  [n |-> (s * n) \div g, d |-> (s * d) \div g]

RInt(i) == [n |-> i, d |-> 1]
RAdd(a, b) == Rat(a.n * b.d + b.n * a.d, a.d * b.d)
RSub(a, b) == Rat(a.n * b.d - b.n * a.d, a.d * b.d)
RMul(a, b) == Rat(a.n * b.n, a.d * b.d)
RDiv(a, b) == Rat(a.n * b.d, a.d * b.n)
RLt(a, b) == a.n * b.d < b.n * a.d
RLe(a, b) == a.n * b.d <= b.n * a.d
RMin(a, b) == IF RLe(a, b) THEN a ELSE b
RMax(a, b) == IF RLe(b, a) THEN a ELSE b

\* Python's int(round(n / d)) for d > 0: nearest integer, ties to the even one.
RoundHalfEven(n, d) ==
    LET q == n \div d
        r == n % d
    IN  IF 2 * r < d THEN q
        ELSE IF 2 * r > d THEN q + 1
        ELSE IF q % 2 = 0 THEN q ELSE q + 1

RRound(a) == RoundHalfEven(a.n, a.d)

----------------------------------------------------------------------------
(* Padded image and display (VideoCanvas.create_360_padded_image,          *)
(* update_display).                                                        *)

\* int(w * self.padding_ratio)
PaddingWidthOf(w) == w \div PADDING_RATIO_DEN

\* padding_width = int(self.original_width * self.padding_ratio)
padding_width == PaddingWidthOf(original_width)

\* total_width = self.original_width + 2 * padding_width
total_width == original_width + 2 * padding_width

\* Column c of the image create_360_padded_image returns is column
\* PaddedColumn(c, w) of the original image of width w.
PaddedColumn(c, w) ==
    LET p == PaddingWidthOf(w)
    IN  IF c < p THEN (w - p) + c
        ELSE IF c < p + w THEN c - p
        ELSE c - (p + w)

\* A frame is the sequence of its columns (the slices of create_360_padded_image
\* take every row and every channel, so a column is one value here).
\* original_image[:, start:stop, :] for a frame of n columns: Python slice bounds,
\* a negative bound counts from the end, -0 is 0.
SliceBound(bound, n) == IF bound < 0 THEN Max(n + bound, 0) ELSE Min(bound, n)

ColumnSlice(image, start, stop) ==
    LET lo == SliceBound(start, Len(image))
        hi == SliceBound(stop, Len(image))
    IN  IF hi <= lo THEN <<>> ELSE SubSeq(image, lo + 1, hi)

\* numpy assignment of a block of source_columns columns to a block of
\* target_columns columns: the shapes are equal or the source has one column,
\* which is repeated; otherwise ValueError (could not broadcast).
CanAssign(target_columns, source_columns) ==
    source_columns = target_columns \/ source_columns = 1

Assigned(target_columns, source) ==
    IF Len(source) = target_columns THEN source
    ELSE [c \in 1 .. target_columns |-> source[1]]

\* Mutant: the bands are filled from the near side instead of the far side.
create_360_padded_image_NearSide(original_image) ==
    IF ~is_360_mode THEN <<original_image>>
    ELSE LET w == Len(original_image)
             padding_width_ == PaddingWidthOf(w)
         IN  <<ColumnSlice(original_image, 0, padding_width_) \o original_image
               \o ColumnSlice(original_image, w - padding_width_, w)>>

\* create_360_padded_image: <<the image returned>>, or <<>> when an assignment
\* raises ValueError.
create_360_padded_image(original_image) ==
    IF ~is_360_mode THEN <<original_image>>
    ELSE
        LET w == Len(original_image)
            padding_width_ == PaddingWidthOf(w)
            \* original_image[:, -padding_width:, :]
            left_source == ColumnSlice(original_image, -padding_width_, w)
            \* original_image[:, :padding_width, :]
            right_source == ColumnSlice(original_image, 0, padding_width_)
        IN  IF /\ CanAssign(padding_width_, Len(left_source))
               /\ CanAssign(padding_width_, Len(right_source))
            THEN <<Assigned(padding_width_, left_source) \o original_image
                   \o Assigned(padding_width_, right_source)>>
            ELSE <<>>

\* Shape <<width, height>> of the image update_display shows.
DisplayImageSize(mode) ==
    IF mode THEN <<original_width + 2 * PaddingWidthOf(original_width), original_height>>
    ELSE <<original_width, original_height>>

\* QPixmap.scaled(canvas_size, Qt.KeepAspectRatio): the size Qt gives the pixmap
\* (QSize::scaled, integer arithmetic, each side at least 1).
ScaledSize(img, canvas) ==
    LET rw == (canvas[2] * img[1]) \div img[2]
    IN  IF rw <= canvas[1]
        THEN <<Max(rw, 1), Max(canvas[2], 1)>>
        ELSE <<Max(canvas[1], 1), Max((canvas[1] * img[2]) \div img[1], 1)>>

\* Mutant: the larger of the two ratios.
ScaleFactorOf_Max(img, canvas) == RMax(Rat(canvas[1], img[1]), Rat(canvas[2], img[2]))

\* min(canvas_size.width() / w, canvas_size.height() / h)
ScaleFactorOf(img, canvas) == RMin(Rat(canvas[1], img[1]), Rat(canvas[2], img[2]))

----------------------------------------------------------------------------
(* Canvas <-> padded coordinates.                                          *)

x_offset == (canvas_size[1] - pixmap[1]) \div 2
y_offset == (canvas_size[2] - pixmap[2]) \div 2

\* The width the x axis is scaled to: total_width in 360 mode, original_width otherwise.
coord_width == IF is_360_mode THEN total_width ELSE original_width

\* Mutant: the range check lets the first column and row past the pixmap through.
canvas_to_padded_coords_Inclusive(canvas_point) ==
    IF pixmap = <<>> THEN <<>>
    ELSE
        LET pixmap_x == canvas_point[1] - ((canvas_size[1] - pixmap[1]) \div 2)
            pixmap_y == canvas_point[2] - ((canvas_size[2] - pixmap[2]) \div 2)
        IN  IF pixmap_x < 0 \/ pixmap_x > pixmap[1] \/ pixmap_y < 0 \/ pixmap_y > pixmap[2]
            THEN <<>>
            ELSE <<RoundHalfEven(pixmap_x * (IF is_360_mode THEN total_width ELSE original_width),
                                 pixmap[1]),
                   RoundHalfEven(pixmap_y * original_height, pixmap[2])>>

\* Mutant: the centring offsets are not subtracted.
canvas_to_padded_coords_NoOffset(canvas_point) ==
    IF pixmap = <<>> THEN <<>>
    ELSE
        LET pixmap_x == canvas_point[1]
            pixmap_y == canvas_point[2]
        IN  IF pixmap_x < 0 \/ pixmap_x >= pixmap[1] \/ pixmap_y < 0 \/ pixmap_y >= pixmap[2]
            THEN <<>>
            ELSE <<RoundHalfEven(pixmap_x * coord_width, pixmap[1]),
                   RoundHalfEven(pixmap_y * original_height, pixmap[2])>>

canvas_to_padded_coords(canvas_point) ==
    IF pixmap = <<>> THEN <<>>
    ELSE
        LET pixmap_x == canvas_point[1] - x_offset
            pixmap_y == canvas_point[2] - y_offset
        IN  IF pixmap_x < 0 \/ pixmap_x >= pixmap[1] \/ pixmap_y < 0 \/ pixmap_y >= pixmap[2]
            THEN <<>>
            ELSE <<RoundHalfEven(pixmap_x * coord_width, pixmap[1]),
                   RoundHalfEven(pixmap_y * original_height, pixmap[2])>>

padded_to_canvas_coords(padded_point) ==
    IF pixmap = <<>> THEN <<>>
    ELSE
        \* pixmap_x = padded_x * pixmap_rect.width() / total_width ; + x_offset ; int(round())
        <<RoundHalfEven(padded_point[1] * pixmap[1] + x_offset * coord_width, coord_width),
          RoundHalfEven(padded_point[2] * pixmap[2] + y_offset * original_height, original_height)>>

----------------------------------------------------------------------------
(* Box records.  A stored box is the dict add_simple_bbox builds:          *)
(* x, y, width, height (padded coordinates), object_type, track_id.        *)

Box(x, y, w, h, ot, tid) ==
    [x |-> x, y |-> y, width |-> w, height |-> h, object_type |-> ot, track_id |-> tid]

main_start == padding_width
main_end == padding_width + original_width

\* One mirror dict of get_simple_mirrors.
MirrorOf(bbox, mx, mw) ==
    [x |-> mx, y |-> bbox.y, width |-> mw, height |-> bbox.height,
     object_type |-> bbox.object_type, track_id |-> bbox.track_id]

\* Mutant: a box in the main band is mirrored to both sides whatever its distance
\* from the seams.
MirrorsByRegion_NoProximity(bbox) ==
    LET x == bbox.x
        width == bbox.width
    IN  IF x < padding_width
        THEN <<MirrorOf(bbox, main_end - padding_width + x, width)>>
        ELSE IF x >= main_end
        THEN <<MirrorOf(bbox, main_start + (x - main_end), width)>>
        ELSE <<MirrorOf(bbox, main_end + (x - main_start), width),
               MirrorOf(bbox, padding_width - (main_end - x), width)>>

\* The mirrors appended by the first if / elif chain (by the region of x), and the
\* value mirror_x holds after it.
MirrorsByRegion(bbox) ==
    LET x == bbox.x
        width == bbox.width
    IN  IF x < padding_width
        THEN <<MirrorOf(bbox, main_end - padding_width + x, width)>>
        ELSE IF x >= main_end
        THEN <<MirrorOf(bbox, main_start + (x - main_end), width)>>
        ELSE \* x >= main_start and x < main_end
            (IF x - main_start < padding_width
             THEN <<MirrorOf(bbox, main_end + (x - main_start), width)>>
             ELSE <<>>)
            \o
            (IF main_end - (x + width) < padding_width
             THEN <<MirrorOf(bbox, padding_width - (main_end - x), width)>>
             ELSE <<>>)

\* The mirror appended by the second if / elif (a box spanning main_start or main_end).
MirrorsBySpan(bbox) ==
    LET x == bbox.x
        width == bbox.width
    IN  IF x < main_start /\ (x + width) > main_start
        \* mirror_x still holds the value the first branch (x < padding_width) gave it
        THEN <<MirrorOf(bbox, main_end - padding_width + x, (x + width) - main_start)>>
        ELSE IF x < main_end /\ (x + width) > main_end
        THEN <<MirrorOf(bbox, 0, main_end - x)>>
        ELSE <<>>

get_simple_mirrors(bbox) ==
    IF ~is_360_mode THEN <<>>
    ELSE MirrorsByRegion(bbox) \o MirrorsBySpan(bbox)

----------------------------------------------------------------------------
(* Padded -> original coordinates (saving).                                *)

\* Mutant: a box that crosses from the left padding into the main band is not flagged.
RegionMap_NoSeamFlag(padded_x, padded_width) ==
    IF padded_x < padding_width
    THEN [x |-> original_width - padding_width + padded_x,
          width |-> padded_width,
          is_boundary_box |-> FALSE]
    ELSE IF padded_x >= padding_width /\ padded_x < padding_width + original_width
    THEN [x |-> padded_x - padding_width,
          width |-> Min(padded_width, original_width - (padded_x - padding_width)),
          is_boundary_box |-> FALSE]
    ELSE [x |-> padded_x - (padding_width + original_width),
          width |-> padded_width,
          is_boundary_box |-> TRUE]

\* Mutant: a box that starts in the left padding band keeps its padded x instead of
\* wrapping to the tail of the frame.
RegionMap_LeftUnwrapped(padded_x, padded_width) ==
    IF padded_x < padding_width
    THEN IF padded_x + padded_width > padding_width
         THEN [x |-> padded_x,
               width |-> (padding_width - padded_x) + ((padded_x + padded_width) - padding_width),
               is_boundary_box |-> TRUE]
         ELSE [x |-> padded_x,
               width |-> padded_width,
               is_boundary_box |-> FALSE]
    ELSE IF padded_x >= padding_width /\ padded_x < padding_width + original_width
    THEN [x |-> padded_x - padding_width,
          width |-> Min(padded_width, original_width - (padded_x - padding_width)),
          is_boundary_box |-> FALSE]
    ELSE [x |-> padded_x - (padding_width + original_width),
          width |-> padded_width,
          is_boundary_box |-> TRUE]

\* Mutant: a box that starts in the right padding band keeps its distance from the
\* start of the main band instead of wrapping to the start of the frame.
RegionMap_Unwrapped(padded_x, padded_width) ==
    IF padded_x < padding_width
    THEN IF padded_x + padded_width > padding_width
         THEN [x |-> original_width - padding_width + padded_x,
               width |-> (padding_width - padded_x) + ((padded_x + padded_width) - padding_width),
               is_boundary_box |-> TRUE]
         ELSE [x |-> original_width - padding_width + padded_x,
               width |-> padded_width,
               is_boundary_box |-> FALSE]
    ELSE IF padded_x >= padding_width /\ padded_x < padding_width + original_width
    THEN [x |-> padded_x - padding_width,
          width |-> Min(padded_width, original_width - (padded_x - padding_width)),
          is_boundary_box |-> FALSE]
    ELSE [x |-> padded_x - padding_width,
          width |-> padded_width,
          is_boundary_box |-> TRUE]

\* The region branch of convert_padded_to_original_coords:
\* original_x, original_width and is_boundary_box before the final clamp.
RegionMap(padded_x, padded_width) ==
    IF padded_x < padding_width
    THEN IF padded_x + padded_width > padding_width
         THEN [x |-> original_width - padding_width + padded_x,
               width |-> (padding_width - padded_x) + ((padded_x + padded_width) - padding_width),
               is_boundary_box |-> TRUE]
         ELSE [x |-> original_width - padding_width + padded_x,
               width |-> padded_width,
               is_boundary_box |-> FALSE]
    ELSE IF padded_x >= padding_width /\ padded_x < padding_width + original_width
    THEN [x |-> padded_x - padding_width,
          width |-> Min(padded_width, original_width - (padded_x - padding_width)),
          is_boundary_box |-> FALSE]
    ELSE [x |-> padded_x - (padding_width + original_width),
          width |-> padded_width,
          is_boundary_box |-> TRUE]

\* Mutant: the region mapping of 360 mode is applied in every mode.
convert_padded_to_original_coords_AlwaysMapped(bbox) ==
    LET r == RegionMap(bbox.x, bbox.width)
        ox == Max(0, Min(r.x, original_width - 1))
        oy == Max(0, Min(bbox.y, original_height - 1))
        ow == Max(1, Min(r.width, original_width - ox))
        oh == Max(1, Min(bbox.height, original_height - oy))
    IN  [x |-> ox, y |-> oy, width |-> ow, height |-> oh,
         object_type |-> bbox.object_type, track_id |-> bbox.track_id,
         coordinate_system |-> "original",
         is_boundary_box |-> r.is_boundary_box]

\* Mutant: the final clamp of the width and height is missing.
convert_padded_to_original_coords_NoSizeClamp(bbox) ==
    IF ~is_360_mode
    THEN [x |-> bbox.x, y |-> bbox.y, width |-> bbox.width, height |-> bbox.height,
          object_type |-> bbox.object_type, track_id |-> bbox.track_id,
          coordinate_system |-> "original"]
    ELSE
        LET r == RegionMap(bbox.x, bbox.width)
        IN  [x |-> Max(0, Min(r.x, original_width - 1)),
             y |-> Max(0, Min(bbox.y, original_height - 1)),
             width |-> r.width, height |-> bbox.height,
             object_type |-> bbox.object_type, track_id |-> bbox.track_id,
             coordinate_system |-> "original",
             is_boundary_box |-> r.is_boundary_box]

\* Mutant: the size clamp stops one pixel short of the frame's end.
convert_padded_to_original_coords_ExclusiveClamp(bbox) ==
    IF ~is_360_mode
    THEN [x |-> bbox.x, y |-> bbox.y, width |-> bbox.width, height |-> bbox.height,
          object_type |-> bbox.object_type, track_id |-> bbox.track_id,
          coordinate_system |-> "original"]
    ELSE
        LET r == RegionMap(bbox.x, bbox.width)
            ox == Max(0, Min(r.x, original_width - 1))
            oy == Max(0, Min(bbox.y, original_height - 1))
            ow == Max(1, Min(r.width, original_width - 1 - ox))
            oh == Max(1, Min(bbox.height, original_height - 1 - oy))
        IN  [x |-> ox, y |-> oy, width |-> ow, height |-> oh,
             object_type |-> bbox.object_type, track_id |-> bbox.track_id,
             coordinate_system |-> "original",
             is_boundary_box |-> r.is_boundary_box]

convert_padded_to_original_coords(bbox) ==
    IF ~is_360_mode
    THEN [x |-> bbox.x, y |-> bbox.y, width |-> bbox.width, height |-> bbox.height,
          object_type |-> bbox.object_type, track_id |-> bbox.track_id,
          coordinate_system |-> "original"]
    ELSE
        LET r == RegionMap(bbox.x, bbox.width)
            ox == Max(0, Min(r.x, original_width - 1))
            oy == Max(0, Min(bbox.y, original_height - 1))
            ow == Max(1, Min(r.width, original_width - ox))
            oh == Max(1, Min(bbox.height, original_height - oy))
        IN  [x |-> ox, y |-> oy, width |-> ow, height |-> oh,
             object_type |-> bbox.object_type, track_id |-> bbox.track_id,
             coordinate_system |-> "original",
             is_boundary_box |-> r.is_boundary_box]

----------------------------------------------------------------------------
(* BFoV.  An angle in radians is the rational multiple of pi it is:        *)
(* math.pi is RInt(1), 2 * math.pi is RInt(2); an angle in degrees is a    *)
(* plain rational, math.degrees(a) = a * 180 / pi.                         *)

Half == Rat(1, 2)

\* Mutant: the degree fields carry the radian values.
Degrees_AsRadians(a) == a

\* math.degrees
Degrees(a) == RMul(a, RInt(180))

\* phi_deg after "if phi_deg > 180: phi_deg -= 360 elif phi_deg < -180: phi_deg += 360"
NormalizeDegrees(deg) ==
    IF RLt(RInt(180), deg) THEN RSub(deg, RInt(360))
    ELSE IF RLt(deg, RInt(-180)) THEN RAdd(deg, RInt(360))
    ELSE deg

\* Mutant: the longitude is not centred on the middle of the frame.
PhiOf_NoCentre(norm_x) == RMul(norm_x, RInt(2))

\* phi = (norm_x - 0.5) * 2 * math.pi
PhiOf(norm_x) == RMul(RSub(norm_x, Half), RInt(2))

\* Mutant: the latitude grows downwards.
ThetaOf_Flipped(norm_y) == RMul(RSub(norm_y, Half), RInt(1))

\* theta = (0.5 - norm_y) * math.pi
ThetaOf(norm_y) == RMul(RSub(Half, norm_y), RInt(1))

calculate_bfov_from_original_coords(original_bbox_) ==
    IF ~is_360_mode THEN <<>>
    ELSE
        LET x == original_bbox_.x
            y == original_bbox_.y
            width == original_bbox_.width
            height == original_bbox_.height
            center_x == RAdd(RInt(x), RDiv(RInt(width), RInt(2)))
            center_y == RAdd(RInt(y), RDiv(RInt(height), RInt(2)))
            norm_x == RDiv(center_x, RInt(original_width))
            norm_y == RDiv(center_y, RInt(original_height))
            phi == PhiOf(norm_x)
            theta == ThetaOf(norm_y)
            width_angle == RMul(RDiv(RInt(width), RInt(original_width)), RInt(2))
            height_angle == RMul(RDiv(RInt(height), RInt(original_height)), RInt(1))
        IN  <<[phi |-> phi,
               theta |-> theta,
               phi_degrees |-> NormalizeDegrees(Degrees(phi)),
               theta_degrees |-> Degrees(theta),
               width_angle |-> width_angle,
               height_angle |-> height_angle,
               width_angle_degrees |-> Degrees(width_angle),
               height_angle_degrees |-> Degrees(height_angle),
               center_pixel |-> [x |-> center_x, y |-> center_y],
               pixel_size |-> [width |-> width, height |-> height],
               original_resolution |-> [width |-> original_width, height |-> original_height],
               bfov_format |-> [phi |-> phi, theta |-> theta,
                                h |-> height_angle, w |-> width_angle]]>>

bfov_to_original_coords(bfov_data) ==
    IF ~is_360_mode THEN <<>>
    ELSE
        LET phi == bfov_data.bfov_format.phi
            theta == bfov_data.bfov_format.theta
            height_angle == bfov_data.bfov_format.h
            width_angle == bfov_data.bfov_format.w
            norm_x == RAdd(RDiv(phi, RInt(2)), Half)
            norm_y == RSub(Half, RDiv(theta, RInt(1)))
            center_x == RMul(norm_x, RInt(original_width))
            center_y == RMul(norm_y, RInt(original_height))
            width == RMul(RDiv(width_angle, RInt(2)), RInt(original_width))
            height == RMul(RDiv(height_angle, RInt(1)), RInt(original_height))
            x0 == RSub(center_x, RDiv(width, RInt(2)))
            y0 == RSub(center_y, RDiv(height, RInt(2)))
            x == RMax(RInt(0), RMin(x0, RSub(RInt(original_width), width)))
            y == RMax(RInt(0), RMin(y0, RSub(RInt(original_height), height)))
        IN  <<[x |-> RRound(x), y |-> RRound(y),
               width |-> RRound(width), height |-> RRound(height)]>>

\* save_data['pixel_coords'] of convert_bbox_for_save: the rectangle of the record
\* convert_padded_to_original_coords returns.
pixel_coords(bbox) ==
    [x |-> convert_padded_to_original_coords(bbox).x,
     y |-> convert_padded_to_original_coords(bbox).y,
     width |-> convert_padded_to_original_coords(bbox).width,
     height |-> convert_padded_to_original_coords(bbox).height]

\* Mutant: the padded coordinates are saved without conversion.
convert_bbox_for_save_Unconverted(bbox) ==
    [object_type |-> bbox.object_type,
     track_id |-> bbox.track_id,
     pixel_coords |-> [x |-> bbox.x, y |-> bbox.y, width |-> bbox.width, height |-> bbox.height]]

convert_bbox_for_save(bbox) ==
    LET original_bbox_ == convert_padded_to_original_coords(bbox)
        bfov_data == IF is_360_mode
                     THEN calculate_bfov_from_original_coords(original_bbox_)
                     ELSE <<>>
        save_data == [object_type |-> original_bbox_.object_type,
                      track_id |-> original_bbox_.track_id,
                      pixel_coords |-> [x |-> original_bbox_.x, y |-> original_bbox_.y,
                                        width |-> original_bbox_.width,
                                        height |-> original_bbox_.height]]
    IN  IF is_360_mode /\ bfov_data # <<>>
        THEN [object_type |-> save_data.object_type,
              track_id |-> save_data.track_id,
              pixel_coords |-> save_data.pixel_coords,
              bfov |-> [phi |-> bfov_data[1].phi,
                        theta |-> bfov_data[1].theta,
                        height_angle |-> bfov_data[1].height_angle,
                        width_angle |-> bfov_data[1].width_angle,
                        phi_degrees |-> bfov_data[1].phi_degrees,
                        theta_degrees |-> bfov_data[1].theta_degrees,
                        height_angle_degrees |-> bfov_data[1].height_angle_degrees,
                        width_angle_degrees |-> bfov_data[1].width_angle_degrees]]
        ELSE save_data

----------------------------------------------------------------------------
(* The box store.  frame_bboxes[f] is a list of dict objects; the same     *)
(* object is also held by selected_bbox, so a box is an identity in heap.  *)

\* The box records of frame f, in list order.
BoxesOf(f) == [i \in 1 .. Len(frame_bboxes[f]) |-> heap[frame_bboxes[f][i]]]

\* "self.current_frame in self.frame_bboxes"
HasFrame(f) == f \in DOMAIN frame_bboxes

\* The identities a store refers to.
Referenced(fb, sel) ==
    UNION { { fb[f][i] : i \in 1 .. Len(fb[f]) } : f \in DOMAIN fb } \cup ({sel} \ {0})

\* The heap without the objects nothing refers to any more.
Collect(h, fb, sel) == [id \in (DOMAIN h) \cap Referenced(fb, sel) |-> h[id]]

\* The list s without its element at (1-based) position i: list.pop(i - 1).
RemoveAt(s, i) == [j \in 1 .. Len(s) - 1 |-> IF j < i THEN s[j] ELSE s[j + 1]]

----------------------------------------------------------------------------
(* Hit testing (get_bbox_zone, get_target_bbox_at_position).               *)

get_bbox_zone(canvas_point, bbox) ==
    LET top_left == padded_to_canvas_coords(<<bbox.x, bbox.y>>)
        bottom_right == padded_to_canvas_coords(<<bbox.x + bbox.width, bbox.y + bbox.height>>)
    IN  IF top_left = <<>> \/ bottom_right = <<>> THEN "outside"
        ELSE
            LET x == canvas_point[1]
                y == canvas_point[2]
                left == top_left[1]
                top == top_left[2]
                right == bottom_right[1]
                bottom == bottom_right[2]
            IN  IF x < left \/ x > right \/ y < top \/ y > bottom THEN "outside"
                ELSE IF Abs(x - left) <= CORNER_THRESHOLD /\ Abs(y - top) <= CORNER_THRESHOLD
                THEN "corner_tl"
                ELSE IF Abs(x - right) <= CORNER_THRESHOLD /\ Abs(y - top) <= CORNER_THRESHOLD
                THEN "corner_tr"
                ELSE IF Abs(x - left) <= CORNER_THRESHOLD /\ Abs(y - bottom) <= CORNER_THRESHOLD
                THEN "corner_bl"
                ELSE IF Abs(x - right) <= CORNER_THRESHOLD /\ Abs(y - bottom) <= CORNER_THRESHOLD
                THEN "corner_br"
                ELSE IF Abs(y - top) <= EDGE_THRESHOLD THEN "edge_top"
                ELSE IF Abs(y - bottom) <= EDGE_THRESHOLD THEN "edge_bottom"
                ELSE IF Abs(x - left) <= EDGE_THRESHOLD THEN "edge_left"
                ELSE IF Abs(x - right) <= EDGE_THRESHOLD THEN "edge_right"
                ELSE "inside"

\* The (1-based) positions of the boxes of the current frame under the point.
Candidates(canvas_point) ==
    IF ~HasFrame(current_frame) THEN {}
    ELSE { i \in 1 .. Len(frame_bboxes[current_frame]) :
             get_bbox_zone(canvas_point, heap[frame_bboxes[current_frame][i]]) # "outside" }

AreaOf(b) == b.width * b.height

\* get_target_bbox_at_position: the (1-based) position of the candidate of least
\* area, the first of them in list order (the sort is stable); 0 when there is none.
get_target_bbox_at_position(canvas_point) ==
    LET c == Candidates(canvas_point)
        area(i) == AreaOf(heap[frame_bboxes[current_frame][i]])
    IN  IF c = {} THEN 0
        ELSE CHOOSE i \in c : \A j \in c : area(i) < area(j) \/ (area(i) = area(j) /\ i <= j)

----------------------------------------------------------------------------
(* Direct calls of the geometry methods on a canvas that shows a frame.    *)
(* SpecGeom calls the box conversions on every box of the bounded frame,   *)
(* SpecCoord calls the point conversions for a set of canvas sizes.        *)

\* The canvas sizes of SpecCoord (the displayed image is 72 x 24 or 48 x 24
\* at the bounds above): enlarged, 1:1, slightly reduced, halved, reduced to a quarter.
CoordCanvasSizes ==
    { <<3 * VideoWidth, 3 * VideoHeight>>,
      <<VideoWidth + 2 * PaddingWidthOf(VideoWidth), VideoHeight>>,
      <<VideoWidth + 7, VideoHeight + 3>>,
      <<VideoWidth, VideoHeight + 5>>,
      <<(VideoWidth + 2 * PaddingWidthOf(VideoWidth)) \div 2, VideoHeight>>,
      <<(VideoWidth + 2 * PaddingWidthOf(VideoWidth)) \div 4, VideoHeight>> }

\* The canvas size of SpecGeom and of the annotation session.
SessionCanvasSize == <<VideoWidth + 2 * PaddingWidthOf(VideoWidth) + 8, VideoHeight + 6>>

\* No gesture, no selection, no boxes, nothing saved.
IdleCanvas ==
    /\ left_down = FALSE
    /\ is_drawing = FALSE
    /\ start_point = <<>>
    /\ end_point = <<>>
    /\ edit_mode = FALSE
    /\ resize_handle = "None"
    /\ move_start_padded = <<>>
    /\ resize_start_padded = <<>>
    /\ original_bbox = <<>>
    /\ selected_bbox = 0
    /\ selected_bbox_index = -1
    /\ exc = "none"
    /\ saved = <<>>
    /\ printed = <<>>

\* A canvas of size cs showing frame 0 of the video in the given mode
\* (load_video -> set_frame(0) -> update_display).
ShowingFrame(cs, mode) ==
    /\ frame_loaded = TRUE
    /\ original_width = VideoWidth
    /\ original_height = VideoHeight
    /\ current_frame = 0
    /\ canvas_size = cs
    /\ is_360_mode = mode
    /\ main_is_360_mode = mode
    /\ pixmap = ScaledSize(IF mode THEN <<VideoWidth + 2 * PaddingWidthOf(VideoWidth), VideoHeight>>
                                   ELSE <<VideoWidth, VideoHeight>>, cs)
    /\ scale_factor = ScaleFactorOf(IF mode THEN <<VideoWidth + 2 * PaddingWidthOf(VideoWidth), VideoHeight>>
                                            ELSE <<VideoWidth, VideoHeight>>, cs)

\* (x, width) pairs of the boxes inside [0, limit] with the 10-pixel floor.
Spans(limit) == { s \in (0 .. limit) \X (MIN_BOX_SIZE .. limit) : s[1] + s[2] <= limit }

\* A few spans: at the start, at the end, the whole extent, off the start by one.
FewSpans(limit) ==
    { <<0, MIN_BOX_SIZE>>, <<limit - MIN_BOX_SIZE, MIN_BOX_SIZE>>, <<0, limit>>,
      <<1, MIN_BOX_SIZE + 1>> }

\* Every box position in a bw x bh image: all horizontal spans with a few vertical
\* ones, and all vertical spans with a few horizontal ones.
BoxesIn(bw, bh) ==
    { Box(h[1], v[1], h[2], v[2], "person", "person_001") :
        h \in Spans(bw), v \in FewSpans(bh) }
    \cup
    { Box(h[1], v[1], h[2], v[2], "person", "person_001") :
        h \in FewSpans(bw), v \in Spans(bh) }

\* Stored boxes (padded coordinates) that satisfy the box record invariant.
StoredBoxes == BoxesIn(coord_width, original_height)

\* Boxes in original-video pixels, fully inside the frame.
OriginalBoxes == BoxesIn(original_width, original_height)

\* The box is fully inside the original frame.
InsideOriginalFrame(b) ==
    /\ 0 <= b.x /\ b.x + b.width <= original_width
    /\ 0 <= b.y /\ b.y + b.height <= original_height

guiVars == <<videoVars, viewVars, modeVars, sessVars, drawVars, editVars, selVars,
             boxVars, exc, saved, printed>>

\* The canvas shows a frame; the argument of the call is any stored box.
InitGeom ==
    /\ \E mode \in BOOLEAN : ShowingFrame(SessionCanvasSize, mode)
    /\ bbox_mode = FALSE
    /\ annotation_active = FALSE
    /\ IdleCanvas
    /\ heap = <<>>
    /\ frame_bboxes = <<>>
    /\ fn_op = "none"
    /\ fn_in \in StoredBoxes
    /\ fn_out = <<>>

CallConvertPadded ==
    /\ fn_op = "none"
    /\ fn_op' = "convert_padded_to_original_coords"
    /\ fn_out' = convert_padded_to_original_coords(fn_in)
    /\ UNCHANGED <<guiVars, fn_in>>

CallGetSimpleMirrors ==
    /\ fn_op = "none"
    /\ fn_op' = "get_simple_mirrors"
    /\ fn_out' = get_simple_mirrors(fn_in)
    /\ UNCHANGED <<guiVars, fn_in>>

CallConvertForSave ==
    /\ fn_op = "none"
    /\ fn_op' = "convert_bbox_for_save"
    /\ fn_out' = convert_bbox_for_save(fn_in)
    /\ UNCHANGED <<guiVars, fn_in>>

\* The argument is a box in original-video pixels inside the frame.
CallCalculateBfov ==
    /\ fn_op = "none"
    /\ InsideOriginalFrame(fn_in)
    /\ fn_op' = "calculate_bfov_from_original_coords"
    /\ fn_out' = calculate_bfov_from_original_coords(fn_in)
    /\ UNCHANGED <<guiVars, fn_in>>

\* bfov_to_original_coords on the record calculate_bfov_from_original_coords returned
\* (fn_in keeps the box the record was computed from).
CallBfovToOriginal ==
    /\ fn_op = "calculate_bfov_from_original_coords"
    /\ fn_out # <<>>
    /\ fn_op' = "bfov_to_original_coords"
    /\ fn_out' = bfov_to_original_coords(fn_out[1])
    /\ UNCHANGED <<guiVars, fn_in>>

\* self.current_frame_data, a frame of the loaded video: column c holds the value c.
current_frame_data == [c \in 1 .. original_width |-> c - 1]

\* create_360_padded_image(self.current_frame_data), the call update_display makes in
\* 360 mode, in either mode.
CallPadCurrentFrame ==
    /\ fn_op = "none"
    /\ fn_op' = "create_360_padded_image"
    /\ fn_out' = create_360_padded_image(current_frame_data)
    /\ UNCHANGED <<guiVars, fn_in>>

\* A bfov record as a saved annotation holds it: a box of a quarter of the sphere's
\* width and half of its height, centred on the middle of the frame.
LoadedBfov ==
    [bfov_format |-> [phi |-> RInt(0), theta |-> RInt(0), h |-> Half, w |-> Half]]

\* bfov_to_original_coords on a record that was not computed in this session.
CallBfovToOriginalLoaded ==
    /\ fn_op = "none"
    /\ fn_op' = "bfov_to_original_coords(record)"
    /\ fn_out' = bfov_to_original_coords(LoadedBfov)
    /\ UNCHANGED <<guiVars, fn_in>>

NextGeom ==
    \/ CallPadCurrentFrame
    \/ CallBfovToOriginalLoaded
    \/ CallConvertPadded
    \/ CallGetSimpleMirrors
    \/ CallConvertForSave
    \/ CallCalculateBfov
    \/ CallBfovToOriginal

SpecGeom == InitGeom /\ [][NextGeom]_vars

\* Integer padded points inside the displayed image.
PaddedPoints == (0 .. coord_width - 1) \X (0 .. original_height - 1)

\* The canvas as constructed, of size cs: no video, no pixmap.
NothingShown(cs) ==
    /\ frame_loaded = FALSE
    /\ original_width = 0
    /\ original_height = 0
    /\ current_frame = 0
    /\ canvas_size = cs
    /\ is_360_mode = FALSE
    /\ main_is_360_mode = FALSE
    /\ pixmap = <<>>
    /\ scale_factor = RInt(1)

\* The canvas shows a frame and the argument is a point of the displayed image, or
\* the canvas shows nothing and the argument is a point of the widget.
InitCoord ==
    /\ \/ /\ \E mode \in BOOLEAN, cs \in CoordCanvasSizes : ShowingFrame(cs, mode)
          /\ fn_in \in PaddedPoints
       \/ /\ NothingShown(SessionCanvasSize)
          /\ fn_in \in (0 .. SessionCanvasSize[1] - 1) \X (0 .. SessionCanvasSize[2] - 1)
    /\ bbox_mode = FALSE
    /\ annotation_active = FALSE
    /\ IdleCanvas
    /\ heap = <<>>
    /\ frame_bboxes = <<>>
    /\ fn_op = "none"
    /\ fn_out = <<>>

CallPaddedToCanvas ==
    /\ fn_op = "none"
    /\ fn_op' = "padded_to_canvas_coords"
    /\ fn_out' = padded_to_canvas_coords(fn_in)
    /\ UNCHANGED <<guiVars, fn_in>>

\* canvas_to_padded_coords on the point padded_to_canvas_coords returned
\* (fn_in keeps the padded point it was computed from).
CallCanvasToPadded ==
    /\ fn_op = "padded_to_canvas_coords"
    /\ fn_out # <<>>
    /\ fn_op' = "canvas_to_padded_coords"
    /\ fn_out' = canvas_to_padded_coords(fn_out)
    /\ UNCHANGED <<guiVars, fn_in>>

\* canvas_to_padded_coords on fn_in taken as a canvas point (a pointer position).
CallCanvasToPaddedAtPointer ==
    /\ fn_op = "none"
    /\ fn_op' = "canvas_to_padded_coords(fn_in)"
    /\ fn_out' = canvas_to_padded_coords(fn_in)
    /\ UNCHANGED <<guiVars, fn_in>>

NextCoord ==
    \/ CallCanvasToPaddedAtPointer
    \/ CallPaddedToCanvas
    \/ CallCanvasToPadded

SpecCoord == InitCoord /\ [][NextCoord]_vars

\* SpecImage: create_360_padded_image on every frame of up to MaxImageWidth
\* columns whose columns are dark (0) or light (1).
Images == UNION { [1 .. w -> {0, 1}] : w \in 1 .. MaxImageWidth }

InitImage ==
    /\ \E mode \in BOOLEAN : ShowingFrame(SessionCanvasSize, mode)
    /\ bbox_mode = FALSE
    /\ annotation_active = FALSE
    /\ IdleCanvas
    /\ heap = <<>>
    /\ frame_bboxes = <<>>
    /\ fn_op = "none"
    /\ fn_in \in Images
    /\ fn_out = <<>>

CallCreatePaddedImage ==
    /\ fn_op = "none"
    /\ fn_op' = "create_360_padded_image"
    /\ fn_out' = create_360_padded_image(fn_in)
    /\ exc' = IF create_360_padded_image(fn_in) = <<>> THEN "ValueError" ELSE "none"
    /\ UNCHANGED <<videoVars, viewVars, modeVars, sessVars, drawVars, editVars, selVars,
                   boxVars, saved, printed, fn_in>>

NextImage == CallCreatePaddedImage

SpecImage == InitImage /\ [][NextImage]_vars

----------------------------------------------------------------------------
(* Selection and gesture start (VideoCanvas).                              *)

\* clear_selection: the <<selected_bbox, selected_bbox_index>> it leaves.
clear_selection(sel, idx) == IF sel # 0 THEN <<0, -1>> ELSE <<sel, idx>>

\* start_new_bbox_drawing after clear_selection left the index idx.
start_new_bbox_drawing(canvas_point, idx) ==
    /\ is_drawing' = TRUE
    /\ edit_mode' = FALSE
    /\ selected_bbox' = 0
    /\ selected_bbox_index' = idx
    /\ start_point' = canvas_point
    /\ end_point' = canvas_point
    /\ frame_bboxes' = frame_bboxes
    /\ heap' = Collect(heap, frame_bboxes, 0)
    /\ UNCHANGED <<resize_handle, move_start_padded, resize_start_padded, original_bbox>>

start_move_mode(bbox, bbox_index, canvas_point) ==
    /\ edit_mode' = TRUE
    /\ is_drawing' = FALSE
    /\ selected_bbox' = bbox
    /\ selected_bbox_index' = bbox_index
    /\ resize_handle' = "move"
    /\ move_start_padded' = canvas_to_padded_coords(canvas_point)
    /\ original_bbox' = <<heap[bbox]>>
    /\ frame_bboxes' = frame_bboxes
    /\ heap' = Collect(heap, frame_bboxes, bbox)
    /\ UNCHANGED <<resize_start_padded, start_point, end_point>>

start_resize_mode(bbox, bbox_index, zone, canvas_point) ==
    /\ edit_mode' = TRUE
    /\ is_drawing' = FALSE
    /\ selected_bbox' = bbox
    /\ selected_bbox_index' = bbox_index
    /\ resize_handle' = zone
    /\ resize_start_padded' = canvas_to_padded_coords(canvas_point)
    /\ original_bbox' = <<heap[bbox]>>
    /\ frame_bboxes' = frame_bboxes
    /\ heap' = Collect(heap, frame_bboxes, bbox)
    /\ UNCHANGED <<move_start_padded, start_point, end_point>>

\* delete_bbox_at_index (bbox_index is 0-based): pops the box and adjusts the selection.
delete_bbox_at_index(bbox_index) ==
    IF ~HasFrame(current_frame) THEN UNCHANGED <<selVars, boxVars>>
    ELSE IF 0 <= bbox_index /\ bbox_index < Len(frame_bboxes[current_frame])
    THEN
        LET sel == IF selected_bbox_index = bbox_index
                   THEN clear_selection(selected_bbox, selected_bbox_index)
                   ELSE IF selected_bbox_index # -1 /\ selected_bbox_index > bbox_index
                   THEN <<selected_bbox, selected_bbox_index - 1>>
                   ELSE <<selected_bbox, selected_bbox_index>>
            fb == [frame_bboxes EXCEPT
                      ![current_frame] = RemoveAt(frame_bboxes[current_frame], bbox_index + 1)]
        IN  /\ frame_bboxes' = fb
            /\ selected_bbox' = sel[1]
            /\ selected_bbox_index' = sel[2]
            /\ heap' = Collect(heap, fb, sel[1])
    ELSE UNCHANGED <<selVars, boxVars>>

----------------------------------------------------------------------------
(* Move and resize of the selected box (handle_bbox_move,                  *)
(* handle_bbox_resize): the record of the selected box after the call.     *)

\* Mutant: the new position is not clamped to the image.
handle_bbox_move_NoClamp(canvas_point) ==
    LET sel == heap[selected_bbox]
        current_padded == canvas_to_padded_coords(canvas_point)
    IN  IF move_start_padded = <<>> \/ current_padded = <<>> THEN sel
        ELSE [sel EXCEPT !.x = original_bbox[1].x + current_padded[1] - move_start_padded[1],
                         !.y = original_bbox[1].y + current_padded[2] - move_start_padded[2]]

\* Mutant: the displacement is added to the current position of the box instead of
\* its position at gesture start.
handle_bbox_move_Incremental(canvas_point) ==
    LET sel == heap[selected_bbox]
        current_padded == canvas_to_padded_coords(canvas_point)
    IN  IF move_start_padded = <<>> \/ current_padded = <<>> THEN sel
        ELSE
            LET dx == current_padded[1] - move_start_padded[1]
                dy == current_padded[2] - move_start_padded[2]
                new_x == Max(0, Min(sel.x + dx, coord_width - sel.width))
                new_y == Max(0, Min(sel.y + dy, original_height - sel.height))
            IN  [sel EXCEPT !.x = new_x, !.y = new_y]

handle_bbox_move(canvas_point) ==
    LET sel == heap[selected_bbox]
        current_padded == canvas_to_padded_coords(canvas_point)
    IN  IF move_start_padded = <<>> \/ current_padded = <<>> THEN sel
        ELSE
            LET dx == current_padded[1] - move_start_padded[1]
                dy == current_padded[2] - move_start_padded[2]
                new_x == Max(0, Min(original_bbox[1].x + dx, coord_width - sel.width))
                new_y == Max(0, Min(original_bbox[1].y + dy, original_height - sel.height))
            IN  [sel EXCEPT !.x = new_x, !.y = new_y]

\* The final boundary check of handle_bbox_resize.
BoundaryChecked(b, max_width, max_height) ==
    LET w == IF b.x + b.width > max_width THEN max_width - b.x ELSE b.width
        h == IF b.y + b.height > max_height THEN max_height - b.y ELSE b.height
    IN  [b EXCEPT !.width = w, !.height = h]

handle_bbox_resize(canvas_point) ==
    LET sel == heap[selected_bbox]
        current_padded == canvas_to_padded_coords(canvas_point)
    IN  IF resize_start_padded = <<>> \/ current_padded = <<>> THEN sel
        ELSE
            LET orig_x == original_bbox[1].x
                orig_y == original_bbox[1].y
                orig_width == original_bbox[1].width
                orig_height == original_bbox[1].height
                current_x == current_padded[1]
                current_y == current_padded[2]
                max_width == coord_width
                max_height == original_height
                \* the left and top edges dragged, the opposite edges kept
                new_x == Min(current_x, orig_x + orig_width - MIN_BOX_SIZE)
                new_y == Min(current_y, orig_y + orig_height - MIN_BOX_SIZE)
                left_width == (orig_x + orig_width) - new_x
                top_height == (orig_y + orig_height) - new_y
                \* the right and bottom edges dragged from the original origin
                right_width == Max(MIN_BOX_SIZE, Min(current_x - orig_x, max_width - orig_x))
                bottom_height == Max(MIN_BOX_SIZE, Min(current_y - orig_y, max_height - orig_y))
                resized ==
                    CASE resize_handle = "corner_tl" ->
                           [sel EXCEPT !.x = Max(0, new_x), !.y = Max(0, new_y),
                                       !.width = Max(MIN_BOX_SIZE, left_width),
                                       !.height = Max(MIN_BOX_SIZE, top_height)]
                      [] resize_handle = "corner_tr" ->
                           [sel EXCEPT !.y = Max(0, new_y),
                                       !.width = right_width,
                                       !.height = Max(MIN_BOX_SIZE, top_height)]
                      [] resize_handle = "corner_bl" ->
                           [sel EXCEPT !.x = Max(0, new_x),
                                       !.width = Max(MIN_BOX_SIZE, left_width),
                                       !.height = bottom_height]
                      [] resize_handle = "corner_br" ->
                           [sel EXCEPT !.width = right_width, !.height = bottom_height]
                      [] resize_handle = "edge_top" ->
                           [sel EXCEPT !.y = Max(0, new_y),
                                       !.height = Max(MIN_BOX_SIZE, top_height)]
                      [] resize_handle = "edge_bottom" ->
                           [sel EXCEPT !.height =
                               Max(MIN_BOX_SIZE, Min(current_y - sel.y, max_height - sel.y))]
                      [] resize_handle = "edge_left" ->
                           [sel EXCEPT !.x = Max(0, new_x),
                                       !.width = Max(MIN_BOX_SIZE, left_width)]
                      [] resize_handle = "edge_right" ->
                           [sel EXCEPT !.width =
                               Max(MIN_BOX_SIZE, Min(current_x - sel.x, max_width - sel.x))]
                      [] OTHER -> sel
            IN  BoundaryChecked(resized, max_width, max_height)

----------------------------------------------------------------------------
(* Completion of a draw gesture: complete_new_bbox_drawing,                *)
(* show_simple_annotation_dialog, BBoxAnnotationDialog, add_simple_bbox.   *)

\* The parameters of BBoxAnnotationDialog.__init__ (besides self).
DialogParameters ==
    {"available_objects", "existing_track_ids", "current_frame_track_ids", "parent"}

\* The keyword arguments show_simple_annotation_dialog constructs the dialog with.
DialogArguments ==
    {"available_objects", "existing_track_ids", "current_frame_track_ids",
     "last_selected_object", "parent"}

\* The constructor call binds: every keyword argument names a parameter.
\* Otherwise Python raises TypeError (unexpected keyword argument).
DialogConstructs == DialogArguments \subseteq DialogParameters

\* What the annotator does with the dialog: <<>> (cancel) or <<[object_type, track_id]>>.
DialogAnswers ==
    { <<>> } \cup { <<[object_type |-> "person", track_id |-> t]>> : t \in {"person_001", "person_002"} }

\* The track ids of the boxes of the current frame.
current_frame_track_ids ==
    IF HasFrame(current_frame)
    THEN { heap[frame_bboxes[current_frame][i]].track_id : i \in 1 .. Len(frame_bboxes[current_frame]) }
    ELSE {}

\* An identity no box object has.
FreshIdentity == 1 + Max(0, CHOOSE m \in (DOMAIN heap) \cup {0} : \A n \in DOMAIN heap : n <= m)

add_simple_bbox(x, y, width, height, object_type, track_id) ==
    LET id == FreshIdentity
        old == IF HasFrame(current_frame) THEN frame_bboxes[current_frame] ELSE <<>>
    IN  /\ heap' = [i \in (DOMAIN heap) \cup {id} |->
                       IF i = id THEN Box(x, y, width, height, object_type, track_id) ELSE heap[i]]
        /\ frame_bboxes' = [f \in (DOMAIN frame_bboxes) \cup {current_frame} |->
                               IF f = current_frame THEN Append(old, id) ELSE frame_bboxes[f]]

\* Mutant: no dialog; the answer is taken as it is and the box is added.
show_simple_annotation_dialog_Unchecked(x, y, width, height, answer) ==
    /\ exc' = "none"
    /\ IF answer # <<>>
       THEN add_simple_bbox(x, y, width, height, answer[1].object_type, answer[1].track_id)
       ELSE UNCHANGED boxVars

\* The dialog is constructed, executed, and on acceptance the box is added.  The OK
\* button of the dialog is disabled for a track id already used on the current frame.
show_simple_annotation_dialog(x, y, width, height, answer) ==
    IF ~DialogConstructs
    THEN /\ exc' = "TypeError"
         /\ UNCHANGED boxVars
    ELSE /\ exc' = "none"
         /\ IF answer # <<>> /\ answer[1].track_id \notin current_frame_track_ids
            THEN add_simple_bbox(x, y, width, height, answer[1].object_type, answer[1].track_id)
            ELSE UNCHANGED boxVars

\* Mutant: an endpoint outside the displayed image counts as the origin of the image.
DraggedRectangle_OffImageAsOrigin(start, end) ==
    LET start_padded == IF canvas_to_padded_coords(start) = <<>> THEN <<0, 0>>
                        ELSE canvas_to_padded_coords(start)
        end_padded == IF canvas_to_padded_coords(end) = <<>> THEN <<0, 0>>
                      ELSE canvas_to_padded_coords(end)
    IN  <<[x |-> Min(start_padded[1], end_padded[1]),
           y |-> Min(start_padded[2], end_padded[2]),
           width |-> Abs(end_padded[1] - start_padded[1]),
           height |-> Abs(end_padded[2] - start_padded[2])]>>

\* The rectangle of a drag from start to end in padded coordinates: <<>> when an
\* endpoint is outside the displayed image, else <<[x, y, width, height]>>.
DraggedRectangle(start, end) ==
    LET start_padded == canvas_to_padded_coords(start)
        end_padded == canvas_to_padded_coords(end)
    IN  IF start_padded = <<>> \/ end_padded = <<>> THEN <<>>
        ELSE <<[x |-> Min(start_padded[1], end_padded[1]),
                y |-> Min(start_padded[2], end_padded[2]),
                width |-> Abs(end_padded[1] - start_padded[1]),
                height |-> Abs(end_padded[2] - start_padded[2])]>>

\* The minimum size test that guards the dialog.
LargeEnough_Always(width, height) == TRUE

LargeEnough(width, height) == width > MIN_BOX_SIZE /\ height > MIN_BOX_SIZE

\* start_point and end_point are read only while is_drawing (paintEvent and this
\* method) and start_new_bbox_drawing overwrites both, so they are dropped here.
complete_new_bbox_drawing(answer) ==
    LET r == DraggedRectangle(start_point, end_point)
    IN  /\ is_drawing' = FALSE
        /\ start_point' = <<>>
        /\ end_point' = <<>>
        /\ UNCHANGED <<editVars, selVars>>
        /\ IF r # <<>> /\ LargeEnough(r[1].width, r[1].height)
           THEN /\ printed' = <<>>
                /\ show_simple_annotation_dialog(r[1].x, r[1].y, r[1].width, r[1].height, answer)
           ELSE /\ printed' = IF r # <<>> THEN <<r[1].width, r[1].height>> ELSE <<>>
                /\ exc' = "none"
                /\ UNCHANGED boxVars

complete_bbox_editing ==
    /\ edit_mode' = FALSE
    /\ resize_handle' = "None"
    /\ move_start_padded' = <<>>
    /\ resize_start_padded' = <<>>
    /\ original_bbox' = <<>>
    /\ exc' = "none"
    /\ printed' = <<>>
    /\ UNCHANGED <<is_drawing, start_point, end_point, selVars, boxVars>>

----------------------------------------------------------------------------
(* The event handlers of the canvas and of the main window.                *)

\* mousePressEvent, left button, with or without Ctrl.
MousePressLeft(canvas_point, ctrl) ==
    /\ ~left_down
    /\ left_down' = TRUE
    /\ exc' = "none"
    /\ IF ~bbox_mode
       THEN UNCHANGED <<is_drawing, start_point, end_point, editVars, selVars, boxVars>>
       ELSE
           LET target == get_target_bbox_at_position(canvas_point)
               cleared == clear_selection(selected_bbox, selected_bbox_index)
           IN  IF ctrl \/ target = 0
               THEN start_new_bbox_drawing(canvas_point, cleared[2])
               ELSE
                   LET bbox == frame_bboxes[current_frame][target]
                       zone == get_bbox_zone(canvas_point, heap[bbox])
                   IN  IF zone = "inside"
                       THEN start_move_mode(bbox, target - 1, canvas_point)
                       ELSE start_resize_mode(bbox, target - 1, zone, canvas_point)
    /\ UNCHANGED <<videoVars, viewVars, modeVars, sessVars, fnVars>>
    /\ saved' = <<>>
    /\ printed' = <<>>

\* mousePressEvent, right button: handle_right_click.
MousePressRight(canvas_point) ==
    /\ exc' = "none"
    /\ IF ~bbox_mode
       THEN UNCHANGED <<selVars, boxVars>>
       ELSE
           LET target == get_target_bbox_at_position(canvas_point)
           IN  IF target # 0
               THEN delete_bbox_at_index(target - 1)
               ELSE UNCHANGED <<selVars, boxVars>>
    /\ UNCHANGED <<videoVars, viewVars, modeVars, sessVars, drawVars, editVars, fnVars>>
    /\ saved' = <<>>
    /\ printed' = <<>>

mouseMoveEvent(canvas_point) ==
    /\ exc' = "none"
    /\ IF ~bbox_mode
       THEN UNCHANGED <<end_point, heap>>
       ELSE IF is_drawing
       THEN /\ end_point' = canvas_point
            /\ UNCHANGED heap
       ELSE IF edit_mode /\ selected_bbox # 0
       THEN /\ heap' = [heap EXCEPT ![selected_bbox] =
                           IF resize_handle = "move"
                           THEN handle_bbox_move(canvas_point)
                           ELSE handle_bbox_resize(canvas_point)]
            /\ UNCHANGED end_point
       ELSE UNCHANGED <<end_point, heap>>
    /\ UNCHANGED <<videoVars, viewVars, modeVars, sessVars, left_down, is_drawing, start_point,
                   editVars, selVars, frame_bboxes, fnVars>>
    /\ saved' = <<>>
    /\ printed' = <<>>

\* mouseReleaseEvent, left button; answer is what the annotator does if a dialog opens.
MouseReleaseLeft(answer) ==
    /\ left_down
    /\ left_down' = FALSE
    /\ IF ~bbox_mode
       THEN /\ exc' = "none"
            /\ printed' = <<>>
            /\ UNCHANGED <<is_drawing, start_point, end_point, editVars, selVars, boxVars>>
       ELSE IF is_drawing
       THEN complete_new_bbox_drawing(answer)
       ELSE IF edit_mode
       THEN complete_bbox_editing
       ELSE /\ exc' = "none"
            /\ printed' = <<>>
            /\ UNCHANGED <<is_drawing, start_point, end_point, editVars, selVars, boxVars>>
    /\ UNCHANGED <<videoVars, viewVars, modeVars, sessVars, fnVars>>
    /\ saved' = <<>>

\* keyPressEvent with Delete or Backspace: delete_selected_bbox.
KeyDelete ==
    /\ IF ~bbox_mode \/ selected_bbox_index = -1
       THEN /\ exc' = "none"
            /\ UNCHANGED <<selVars, boxVars>>
       ELSE IF ~HasFrame(current_frame)
       THEN /\ exc' = "KeyError"
            /\ UNCHANGED <<selVars, boxVars>>
       ELSE IF selected_bbox_index >= Len(frame_bboxes[current_frame])
       THEN /\ exc' = "IndexError"
            /\ UNCHANGED <<selVars, boxVars>>
       ELSE /\ exc' = "none"
            /\ delete_bbox_at_index(selected_bbox_index)
    /\ UNCHANGED <<videoVars, viewVars, modeVars, sessVars, drawVars, editVars, fnVars>>
    /\ saved' = <<>>
    /\ printed' = <<>>

\* MainWindow.remove_last_bbox -> VideoCanvas.remove_last_bbox (the undo button).
remove_last_bbox ==
    /\ ~left_down
    /\ exc' = "none"
    /\ IF bbox_mode /\ HasFrame(current_frame) /\ Len(frame_bboxes[current_frame]) > 0
       THEN LET fb == [frame_bboxes EXCEPT ![current_frame] =
                          SubSeq(frame_bboxes[current_frame], 1, Len(frame_bboxes[current_frame]) - 1)]
            IN  /\ frame_bboxes' = fb
                /\ heap' = Collect(heap, fb, selected_bbox)
       ELSE UNCHANGED boxVars
    /\ UNCHANGED <<videoVars, viewVars, modeVars, sessVars, drawVars, editVars, selVars, fnVars>>
    /\ saved' = <<>>
    /\ printed' = <<>>

\* set_frame(frame_index) on the loaded video, then update_display.
set_frame(frame_index) ==
    /\ frame_loaded
    /\ 0 <= frame_index /\ frame_index < NumFrames
    /\ current_frame' = frame_index
    /\ original_width' = original_width
    /\ original_height' = original_height
    /\ frame_loaded' = TRUE
    /\ pixmap' = ScaledSize(DisplayImageSize(is_360_mode), canvas_size)
    /\ scale_factor' = ScaleFactorOf(DisplayImageSize(is_360_mode), canvas_size)
    /\ exc' = "none"
    /\ UNCHANGED <<canvas_size, modeVars, sessVars, drawVars, editVars, selVars, boxVars, fnVars>>
    /\ saved' = <<>>
    /\ printed' = <<>>

\* MainWindow.get_current_annotation_with_qa: the converted annotations by frame.
get_current_annotation_with_qa ==
    /\ ~left_down
    /\ exc' = "none"
    /\ saved' = IF ~annotation_active THEN <<>>
                ELSE <<[f \in DOMAIN frame_bboxes |->
                          [i \in 1 .. Len(frame_bboxes[f]) |->
                              convert_bbox_for_save(heap[frame_bboxes[f][i]])]]>>
    /\ printed' = <<>>
    /\ UNCHANGED <<videoVars, viewVars, modeVars, sessVars, drawVars, editVars, selVars, boxVars, fnVars>>

\* The boxes draw_existing_bboxes hands to draw_single_bbox_simple for one stored
\* box: the box itself (is_original), then its mirrors (360 mode only).
DrawnFor(bbox) ==
    <<[bbox |-> bbox, is_original |-> TRUE]>>
    \o (IF is_360_mode
        THEN [k \in 1 .. Len(get_simple_mirrors(bbox)) |->
                 [bbox |-> get_simple_mirrors(bbox)[k], is_original |-> FALSE]]
        ELSE <<>>)

\* draw_existing_bboxes over the first n boxes of the current frame.
RECURSIVE DrawnUpTo(_)
DrawnUpTo(n) ==
    IF n = 0 THEN <<>>
    ELSE DrawnUpTo(n - 1) \o DrawnFor(heap[frame_bboxes[current_frame][n]])

draw_existing_bboxes ==
    IF ~HasFrame(current_frame) THEN <<>>
    ELSE DrawnUpTo(Len(frame_bboxes[current_frame]))

\* Mutant: the mirrors painted are also appended to the list of the current frame.
paintEvent_StoresMirrors ==
    /\ fn_op' = "paintEvent"
    /\ fn_out' = IF pixmap = <<>> \/ ~bbox_mode THEN <<>> ELSE draw_existing_bboxes
    /\ LET drawn == IF pixmap = <<>> \/ ~bbox_mode THEN <<>> ELSE draw_existing_bboxes
           mirrors == SelectSeq(drawn, LAMBDA d : ~d.is_original)
           base == FreshIdentity - 1
       IN  IF mirrors = <<>> THEN UNCHANGED boxVars
           ELSE /\ heap' = [id \in (DOMAIN heap) \cup (base + 1 .. base + Len(mirrors)) |->
                               IF id \in DOMAIN heap THEN heap[id] ELSE mirrors[id - base].bbox]
                /\ frame_bboxes' = [frame_bboxes EXCEPT ![current_frame] =
                                        @ \o [k \in 1 .. Len(mirrors) |-> base + k]]
    /\ exc' = "none"
    /\ saved' = <<>>
    /\ printed' = <<>>
    /\ UNCHANGED <<videoVars, viewVars, modeVars, sessVars, drawVars, editVars, selVars, fn_in>>

\* paintEvent: with a pixmap and in bbox mode, draw_existing_bboxes; fn_out keeps
\* what was handed to the painter.
paintEvent ==
    /\ fn_op' = "paintEvent"
    /\ fn_out' = IF pixmap = <<>> \/ ~bbox_mode THEN <<>> ELSE draw_existing_bboxes
    /\ exc' = "none"
    /\ saved' = <<>>
    /\ printed' = <<>>
    /\ UNCHANGED <<videoVars, viewVars, modeVars, sessVars, drawVars, editVars, selVars,
                   boxVars, fn_in>>

----------------------------------------------------------------------------
(* Spec: an annotation session on a loaded video with the 360 mode fixed.  *)
(* The box store starts with boxes as add_simple_bbox stores them; the     *)
(* annotator draws, selects, moves, resizes, deletes, undoes, changes the  *)
(* frame and saves.                                                        *)

\* The canvas of the session: twice the padded image, with a margin.
EditCanvasSize ==
    <<2 * (VideoWidth + 2 * PaddingWidthOf(VideoWidth)), 2 * VideoHeight + 4>>

\* Columns and rows of the displayed image (padded coordinates) the pointer visits.
PointerColumns == { 0, coord_width \div 3, 2 * (coord_width \div 3) }
PointerRows == { 0, (5 * original_height) \div 12, (10 * original_height) \div 12 }

\* The canvas points of the pointer: over those columns and rows, and off the image.
PointerPoints ==
    IF pixmap = <<>> THEN { <<-1, -1>> }
    ELSE { padded_to_canvas_coords(p) : p \in PointerColumns \X PointerRows } \cup { <<-1, -1>> }

\* Where the pointer may be taken while a box is being drawn: back to the first
\* column and row, to the last ones, or off the image.
DrawPoints ==
    IF pixmap = <<>> THEN { <<-1, -1>> }
    ELSE
    { padded_to_canvas_coords(<<0, 0>>),
      padded_to_canvas_coords(<<2 * (coord_width \div 3), (10 * original_height) \div 12>>),
      <<-1, -1>> }

\* A stored box of full height from the second to the third of those columns.
SeedBox(track_id) ==
    Box(coord_width \div 3, 0, coord_width \div 3, original_height, "person", track_id)

Init ==
    /\ \E mode \in BOOLEAN : ShowingFrame(EditCanvasSize, mode)
    /\ bbox_mode = TRUE
    /\ annotation_active = TRUE
    /\ IdleCanvas
    /\ heap = [id \in {1} |-> SeedBox("person_001")]
    /\ frame_bboxes = [f \in {0} |-> <<1>>]
    /\ fn_op = "none"
    /\ fn_in = <<>>
    /\ fn_out = <<>>

Next ==
    \/ \E p \in PointerPoints, ctrl \in BOOLEAN : MousePressLeft(p, ctrl)
    \/ \E p \in PointerPoints : MousePressRight(p)
    \/ \E p \in (IF is_drawing THEN DrawPoints ELSE PointerPoints) : mouseMoveEvent(p)
    \/ \E answer \in DialogAnswers : MouseReleaseLeft(answer)
    \/ KeyDelete
    \/ remove_last_bbox
    \/ \E f \in 0 .. NumFrames - 1 : set_frame(f)
    \/ get_current_annotation_with_qa

Spec == Init /\ [][Next]_vars

----------------------------------------------------------------------------
(* SpecFresh: the application from construction.  The annotator loads the  *)
(* video, starts a bounding-box annotation over the whole video and works  *)
(* on the canvas.                                                          *)

\* auto_detect_360_mode: 1.8 <= width / height <= 2.2
is_panoramic(width, height) ==
    height > 0 /\ 18 * height <= 10 * width /\ 10 * width <= 22 * height

\* Frame shapes <<width, height>> of the videos that can be loaded: a panorama
\* and a 4:3 video.
VideoShapes == { <<VideoWidth, VideoHeight>>, <<FlatVideoWidth, VideoHeight>> }

\* Shape of the image update_display shows for a frame of that shape.
VideoImageSize(shape, mode) ==
    IF mode THEN <<shape[1] + 2 * PaddingWidthOf(shape[1]), shape[2]>>
    ELSE shape

\* MainWindow() and VideoCanvas() as constructed; the canvas widget has its size.
InitFresh ==
    /\ frame_loaded = FALSE
    /\ original_width = 0
    /\ original_height = 0
    /\ current_frame = 0
    /\ canvas_size = EditCanvasSize
    /\ pixmap = <<>>
    /\ scale_factor = RInt(1)
    /\ is_360_mode = FALSE
    /\ main_is_360_mode = FALSE
    /\ bbox_mode = FALSE
    /\ annotation_active = FALSE
    /\ IdleCanvas
    /\ heap = <<>>
    /\ frame_bboxes = <<>>
    /\ fn_op = "none"
    /\ fn_in = <<>>
    /\ fn_out = <<>>

\* MainWindow.load_video with a file that opens: VideoCanvas.load_video (set_frame(0)
\* in the mode the canvas is in), reset_all_for_new_video, auto_detect_360_mode
\* (the checkbox change runs on_360_mode_changed).  Loaded between gestures.
load_video(shape) ==
    /\ ~left_down
    /\ frame_loaded' = TRUE
    /\ current_frame' = 0
    /\ original_width' = shape[1]
    /\ original_height' = shape[2]
    /\ LET panoramic == is_panoramic(shape[1], shape[2])
           mode == IF panoramic # main_is_360_mode THEN panoramic ELSE is_360_mode
       IN  /\ main_is_360_mode' = panoramic
           /\ is_360_mode' = mode
           /\ pixmap' = ScaledSize(VideoImageSize(shape, mode), canvas_size)
           /\ scale_factor' = ScaleFactorOf(VideoImageSize(shape, mode), canvas_size)
    /\ annotation_active' = FALSE
    /\ bbox_mode' = FALSE
    /\ is_drawing' = FALSE
    /\ start_point' = <<>>
    /\ end_point' = <<>>
    /\ edit_mode' = FALSE
    /\ selected_bbox' = 0
    /\ selected_bbox_index' = -1
    /\ frame_bboxes' = <<>>
    /\ heap' = <<>>
    /\ exc' = "none"
    /\ saved' = <<>>
    /\ printed' = <<>>
    /\ UNCHANGED <<canvas_size, left_down, resize_handle, move_start_padded,
                   resize_start_padded, original_bbox, fnVars>>

\* MainWindow.apply_time_segment_and_start with objects selected and the segment
\* 0 .. NumFrames - 1, interval 1 (the annotator agrees to drop earlier boxes).
apply_time_segment_and_start ==
    /\ ~left_down
    /\ frame_loaded
    /\ 0 < NumFrames - 1
    /\ annotation_active' = TRUE
    /\ frame_bboxes' = <<>>
    /\ heap' = Collect(heap, <<>>, selected_bbox)
    /\ bbox_mode' = TRUE
    /\ current_frame' = 0
    /\ pixmap' = ScaledSize(DisplayImageSize(is_360_mode), canvas_size)
    /\ scale_factor' = ScaleFactorOf(DisplayImageSize(is_360_mode), canvas_size)
    /\ exc' = "none"
    /\ saved' = <<>>
    /\ printed' = <<>>
    /\ UNCHANGED <<frame_loaded, original_width, original_height, canvas_size, modeVars,
                   drawVars, editVars, selVars, fnVars>>

\* MainWindow.on_360_mode_changed: the 360 checkbox is set to checked (stateChanged
\* is emitted only when the state of the checkbox changes).
on_360_mode_changed(checked) ==
    /\ ~left_down
    /\ checked # main_is_360_mode
    /\ main_is_360_mode' = checked
    /\ IF frame_loaded
       THEN /\ is_360_mode' = checked
            /\ pixmap' = ScaledSize(DisplayImageSize(checked), canvas_size)
            /\ scale_factor' = ScaleFactorOf(DisplayImageSize(checked), canvas_size)
       ELSE UNCHANGED <<is_360_mode, pixmap, scale_factor>>
    /\ exc' = "none"
    /\ saved' = <<>>
    /\ printed' = <<>>
    /\ UNCHANGED <<videoVars, canvas_size, sessVars, drawVars, editVars, selVars, boxVars, fnVars>>

\* The sizes the canvas widget is resized to: the session's size, and a size less
\* wide than the padded panorama.
CanvasSizes == { EditCanvasSize, <<VideoWidth, VideoHeight + 5>> }

\* VideoCanvas.resizeEvent: the widget has the new size; update_display when a
\* frame is loaded.
resizeEvent(size) ==
    /\ ~left_down
    /\ size # canvas_size
    /\ canvas_size' = size
    /\ IF frame_loaded
       THEN /\ pixmap' = ScaledSize(DisplayImageSize(is_360_mode), size)
            /\ scale_factor' = ScaleFactorOf(DisplayImageSize(is_360_mode), size)
       ELSE UNCHANGED <<pixmap, scale_factor>>
    /\ exc' = "none"
    /\ saved' = <<>>
    /\ printed' = <<>>
    /\ UNCHANGED <<videoVars, modeVars, sessVars, drawVars, editVars, selVars, boxVars, fnVars>>

NextFresh ==
    \/ \E shape \in VideoShapes : load_video(shape)
    \/ \E checked \in BOOLEAN : on_360_mode_changed(checked)
    \/ \E size \in CanvasSizes : resizeEvent(size)
    \/ apply_time_segment_and_start
    \/ \E p \in PointerPoints, ctrl \in BOOLEAN : MousePressLeft(p, ctrl)
    \/ \E p \in PointerPoints : MousePressRight(p)
    \/ \E p \in (IF is_drawing THEN DrawPoints ELSE PointerPoints) : mouseMoveEvent(p)
    \/ \E answer \in DialogAnswers : MouseReleaseLeft(answer)
    \/ KeyDelete
    \/ remove_last_bbox
    \/ \E f \in 0 .. NumFrames - 1 : set_frame(f)
    \/ get_current_annotation_with_qa

SpecFresh == InitFresh /\ [][NextFresh]_vars

----------------------------------------------------------------------------
(* SpecSave: get_current_annotation_with_qa on box stores of up to two     *)
(* frames with up to two boxes each.                                       *)

\* Stored boxes to save: in the left padding, across the left seam, in the main
\* area, across the right seam, in the right padding, over the whole width.
SaveBoxes ==
    { Box(s[1], 2, s[2], original_height - 4, s[3], s[4]) :
        s \in { <<0, MIN_BOX_SIZE, "person", "person_001">>,
                <<PaddingWidthOf(VideoWidth) - 4, MIN_BOX_SIZE + 1, "person", "person_002">>,
                <<PaddingWidthOf(VideoWidth) + 3, MIN_BOX_SIZE + 5, "car", "car_001">>,
                <<coord_width - PaddingWidthOf(VideoWidth) - 6, MIN_BOX_SIZE + 2, "car", "car_002">>,
                <<coord_width - MIN_BOX_SIZE, MIN_BOX_SIZE, "dog", "dog_001">>,
                <<0, coord_width, "dog", "dog_002">> } }

\* Lists of up to two different stored boxes.
SaveLists ==
    { <<>> } \cup { <<a>> : a \in SaveBoxes }
             \cup { p \in SaveBoxes \X SaveBoxes : p[1] # p[2] }

InitSave ==
    /\ \E mode \in BOOLEAN : ShowingFrame(EditCanvasSize, mode)
    /\ bbox_mode = TRUE
    /\ annotation_active \in BOOLEAN
    /\ IdleCanvas
    /\ \E first \in SaveLists, second \in SaveLists, keys \in {{0}, {1}, {0, 1}} :
           /\ heap = first \o second
           /\ frame_bboxes = [f \in keys |->
                                 IF f = Min(0, 1) /\ keys # {1}
                                 THEN [i \in 1 .. Len(first) |-> i]
                                 ELSE [i \in 1 .. Len(second) |-> Len(first) + i]]
           /\ (keys = {1} => first = <<>>)
           /\ (keys = {0} => second = <<>>)
    /\ fn_op = "none"
    /\ fn_in = <<>>
    /\ fn_out = <<>>

NextSave ==
    \/ get_current_annotation_with_qa
    \/ \E f \in 0 .. NumFrames - 1 : set_frame(f)

SpecSave == InitSave /\ [][NextSave]_vars

\* SpecToggle: the same box stores; the annotator toggles the 360 checkbox and saves.
NextToggle ==
    \/ \E checked \in BOOLEAN : on_360_mode_changed(checked)
    \/ get_current_annotation_with_qa

SpecToggle == InitSave /\ [][NextToggle]_vars

\* MainWindow.reset_for_new_grounding (the video stays loaded): bbox mode is left
\* through disable_bbox_mode, the annotation data and the box lists are dropped;
\* the selection and the edit state of the canvas are not touched.
reset_for_new_grounding ==
    /\ ~left_down
    /\ bbox_mode' = FALSE
    /\ is_drawing' = (IF bbox_mode THEN FALSE ELSE is_drawing)
    /\ annotation_active' = FALSE
    /\ frame_bboxes' = <<>>
    /\ heap' = Collect(heap, <<>>, selected_bbox)
    /\ exc' = "none"
    /\ saved' = <<>>
    /\ printed' = <<>>
    /\ UNCHANGED <<videoVars, viewVars, modeVars, left_down, start_point, end_point,
                   editVars, selVars, fnVars>>

\* SpecMouse: the session of Spec with the mouse only (both buttons and pointer
\* moves), and the reset that ends bbox mode.
NextMouse ==
    \/ \E p \in PointerPoints, ctrl \in BOOLEAN : MousePressLeft(p, ctrl)
    \/ \E p \in PointerPoints : MousePressRight(p)
    \/ \E p \in (IF is_drawing THEN DrawPoints ELSE PointerPoints) : mouseMoveEvent(p)
    \/ \E answer \in DialogAnswers : MouseReleaseLeft(answer)
    \/ reset_for_new_grounding

SpecMouse == Init /\ [][NextMouse]_vars

\* SpecPaint: the session of Spec with the left button, the pointer, saving and
\* painting only; the canvas is observed at one paintEvent.
NextPaint ==
    \/ /\ fn_op = "none"
       /\ \/ \E p \in PointerPoints, ctrl \in BOOLEAN : MousePressLeft(p, ctrl)
          \/ \E p \in (IF is_drawing THEN DrawPoints ELSE PointerPoints) : mouseMoveEvent(p)
          \/ \E answer \in DialogAnswers : MouseReleaseLeft(answer)
          \/ get_current_annotation_with_qa
    \/ /\ fn_op = "none"
       /\ paintEvent

SpecPaint == Init /\ [][NextPaint]_vars

----------------------------------------------------------------------------
(* Claims about the annotation session (Spec), about saving (SpecSave) and *)
(* about drawing from a fresh start (SpecFresh).                           *)

\* The box record invariant for one box, in the current 360 mode.
BoxRecordInvariant(b) ==
    /\ 0 <= b.x
    /\ 0 <= b.y
    /\ b.width >= 10
    /\ b.height >= 10
    /\ b.x + b.width <= (IF is_360_mode THEN total_width ELSE original_width)
    /\ b.y + b.height <= original_height

\* The selected box is being edited with the given handle and already differs
\* from the copy taken when the gesture started.
EditedWith(handle) ==
    /\ edit_mode
    /\ selected_bbox # 0
    /\ resize_handle = handle
    /\ original_bbox # <<>>
    /\ heap[selected_bbox] # original_bbox[1]

\* C1: with the 360 mode fixed, after any sequence of draw, move and resize
\* gestures, deletes and frame changes, every box of every frame has x >= 0,
\* y >= 0, width >= 10, height >= 10, x + width <= padded width (original width
\* when not in 360 mode) and y + height <= original height.
C1_BoxRecordInvariant ==
    \A f \in DOMAIN frame_bboxes :
        \A i \in 1 .. Len(frame_bboxes[f]) : BoxRecordInvariant(heap[frame_bboxes[f][i]])

\* C1 witness: in a 360 session a stored box, shortened by an earlier resize
\* gesture, that a move gesture has pushed against the right end of the padded
\* image, while frame 1 is displayed.
C1_Witness ==
    /\ is_360_mode
    /\ current_frame = 1
    /\ EditedWith("move")
    /\ \E f \in DOMAIN frame_bboxes : \E i \in 1 .. Len(frame_bboxes[f]) :
           /\ frame_bboxes[f][i] = selected_bbox
           /\ heap[selected_bbox].x + heap[selected_bbox].width = total_width
           /\ heap[selected_bbox].height < original_height

\* C2: a drag gesture whose box has width < 10 or height < 10 appends nothing: on
\* the release that completes it the box list of every frame is unchanged and no
\* annotation dialog is opened.
C2_SmallDragAppendsNothing ==
    [][ (/\ bbox_mode /\ is_drawing /\ left_down /\ ~left_down'
         /\ DraggedRectangle(start_point, end_point) # <<>>
         /\ \/ DraggedRectangle(start_point, end_point)[1].width < 10
            \/ DraggedRectangle(start_point, end_point)[1].height < 10)
        => (/\ frame_bboxes' = frame_bboxes
            /\ heap' = heap
            /\ exc' = "none") ]_vars

\* C2 witness: a drag that is wide enough but not high enough was just released
\* and reported as too small, with a stored box still on the frame.
C2_Witness ==
    /\ ~is_drawing
    /\ ~left_down
    /\ printed # <<>>
    /\ printed[1] > 10
    /\ printed[2] < 10
    /\ exc = "none"
    /\ HasFrame(current_frame)
    /\ Len(frame_bboxes[current_frame]) = 1

----------------------------------------------------------------------------
(* Claims about the geometry methods (SpecGeom, SpecCoord).                *)

\* C4 (Round-trip BFoV): in 360 mode, for every integer box with width and height
\* of at least 10 that lies inside the original frame,
\* bfov_to_original_coords(calculate_bfov_from_original_coords(box)) returns
\* x, y, width and height each within 1 pixel of the box.
C4_RoundTripBFoV ==
    (fn_op = "bfov_to_original_coords" /\ is_360_mode) =>
        /\ fn_out # <<>>
        /\ Abs(fn_out[1].x - fn_in.x) <= 1
        /\ Abs(fn_out[1].y - fn_in.y) <= 1
        /\ Abs(fn_out[1].width - fn_in.width) <= 1
        /\ Abs(fn_out[1].height - fn_in.height) <= 1

\* A box off the left and top edges, wider than the floor, has made the round trip.
C4_Witness ==
    /\ fn_op = "bfov_to_original_coords"
    /\ is_360_mode
    /\ fn_in.x > 0 /\ fn_in.y > 0
    /\ fn_in.width > MIN_BOX_SIZE /\ fn_in.height >= MIN_BOX_SIZE
    /\ fn_out # <<>>
    /\ fn_out[1].x = fn_in.x /\ fn_out[1].width = fn_in.width

MoreThanHalfSize ==
    /\ pixmap # <<>>
    /\ 2 * pixmap[1] > coord_width
    /\ 2 * pixmap[2] > original_height

StraddlesLeftSeam(b) == b.x < padding_width /\ b.x + b.width > padding_width

\* C6 (Seam wraparound flag): in 360 mode convert_padded_to_original_coords returns
\* is_boundary_box = true for every box with x < padding_width and
\* x + width > padding_width.
C6_SeamFlag ==
    (fn_op = "convert_padded_to_original_coords" /\ is_360_mode /\ StraddlesLeftSeam(fn_in)) =>
        fn_out.is_boundary_box = TRUE

\* The proportions of the sample of the claim (x = 900, width = 120 at
\* padding_width = 960): a box that starts just left of the seam and crosses it.
C6_Witness ==
    /\ fn_op = "convert_padded_to_original_coords"
    /\ is_360_mode
    /\ fn_in.x = padding_width - 1
    /\ fn_in.width = MIN_BOX_SIZE + 2
    /\ fn_out.is_boundary_box = TRUE

\* C7 (Mirror count bound): in 360 mode get_simple_mirrors returns at most 2 mirror
\* boxes for every box that satisfies the box record invariant.
C7_MirrorCountBound ==
    (fn_op = "get_simple_mirrors" /\ is_360_mode) => Len(fn_out) <= 2

\* C8 (Converter output stays inside the frame): in 360 mode, for every stored box
\* that satisfies the box record invariant, the record
\* convert_padded_to_original_coords returns has 0 <= x <= original_width - 1,
\* 0 <= y <= original_height - 1, width >= 1, height >= 1,
\* x + width <= original_width and y + height <= original_height, and the call
\* returns a record (it does not raise).
C8_ConverterInsideFrame ==
    (fn_op = "convert_padded_to_original_coords" /\ is_360_mode) =>
        /\ exc = "none"
        /\ DOMAIN fn_out = {"x", "y", "width", "height", "object_type", "track_id",
                            "coordinate_system", "is_boundary_box"}
        /\ 0 <= fn_out.x /\ fn_out.x <= original_width - 1
        /\ 0 <= fn_out.y /\ fn_out.y <= original_height - 1
        /\ fn_out.width >= 1 /\ fn_out.height >= 1
        /\ fn_out.x + fn_out.width <= original_width
        /\ fn_out.y + fn_out.height <= original_height

\* A box that starts in the left padding band and is wider than the rest of the
\* frame behind its mapped x: the clamp has cut its width.
C8_Witness ==
    /\ fn_op = "convert_padded_to_original_coords"
    /\ is_360_mode
    /\ fn_in.x < padding_width
    /\ fn_out.width < fn_in.width
    /\ fn_out.x + fn_out.width = original_width

\* Twice the centre of a box, as integers.
Centre2X(b) == 2 * b.x + b.width
Centre2Y(b) == 2 * b.y + b.height

\* phi and theta of the BFoV record of a box (360 mode).
PhiOfBox(b) == calculate_bfov_from_original_coords(b)[1].phi
ThetaOfBox(b) == calculate_bfov_from_original_coords(b)[1].theta

\* Boxes to compare a box with: the few spans in each direction.
ComparisonBoxes ==
    { Box(h[1], v[1], h[2], v[2], "person", "person_001") :
        h \in FewSpans(original_width), v \in FewSpans(original_height) }

\* C10 (BFoV sign convention): phi = 0 for a box whose centre x is
\* original_width / 2; the distance of phi from -pi is 2 pi * centre_x /
\* original_width (phi tends to -pi as the centre approaches the leftmost column);
\* the distance of theta from +pi/2 is pi * centre_y / original_height (theta tends
\* to +pi/2 as the centre approaches the topmost row); phi is strictly increasing in
\* centre x and theta strictly decreasing in centre y.
C10_SignConvention ==
    (fn_op = "calculate_bfov_from_original_coords" /\ is_360_mode) =>
        LET phi == fn_out[1].phi
            theta == fn_out[1].theta
        IN  /\ (Centre2X(fn_in) = original_width) => phi = RInt(0)
            /\ RAdd(phi, RInt(1)) = Rat(Centre2X(fn_in), original_width)
            /\ RSub(Half, theta) = Rat(Centre2Y(fn_in), 2 * original_height)
            /\ RLt(RInt(-1), phi) /\ RLt(theta, Half)
            /\ \A c \in ComparisonBoxes :
                /\ (Centre2X(c) > Centre2X(fn_in)) => RLt(phi, PhiOfBox(c))
                /\ (Centre2X(c) < Centre2X(fn_in)) => RLt(PhiOfBox(c), phi)
                /\ (Centre2Y(c) > Centre2Y(fn_in)) => RLt(ThetaOfBox(c), theta)
                /\ (Centre2Y(c) < Centre2Y(fn_in)) => RLt(theta, ThetaOfBox(c))

\* A box centred on the middle column, in the upper half of the frame: phi = 0,
\* theta > 0.
C10_Witness ==
    /\ fn_op = "calculate_bfov_from_original_coords"
    /\ is_360_mode
    /\ Centre2X(fn_in) = original_width
    /\ Centre2Y(fn_in) < original_height
    /\ fn_out[1].phi = RInt(0)
    /\ RLt(RInt(0), fn_out[1].theta)

\* The frame's list after the step is the old list with one more box, which has the
\* rectangle r and the answer's object type and track id; other frames keep their lists.
BoxAppended(r, a) ==
    LET old == IF HasFrame(current_frame) THEN frame_bboxes[current_frame] ELSE <<>>
    IN  /\ current_frame \in DOMAIN frame_bboxes'
        /\ Len(frame_bboxes'[current_frame]) = Len(old) + 1
        /\ \A i \in 1 .. Len(old) : frame_bboxes'[current_frame][i] = old[i]
        /\ frame_bboxes'[current_frame][Len(old) + 1] \in DOMAIN heap'
        /\ heap'[frame_bboxes'[current_frame][Len(old) + 1]] =
               Box(r.x, r.y, r.width, r.height, a.object_type, a.track_id)
        /\ \A f \in (DOMAIN frame_bboxes) \ {current_frame} :
               f \in DOMAIN frame_bboxes' /\ frame_bboxes'[f] = frame_bboxes[f]

\* C3: when a left-button drag in bbox mode ends with both endpoints inside the
\* displayed image and a box of width >= 10 and height >= 10, and the annotator
\* confirms an object type and a track id not yet used on the current frame, exactly
\* one box with x = min(start_x, end_x), y = min(start_y, end_y), width = |end_x -
\* start_x|, height = |end_y - start_y| and that type and id is appended to the
\* current frame's list, and the lists of all other frames are unchanged.
C3_BoxCreation ==
    [][ \A answer \in DialogAnswers :
            (/\ answer # <<>>
             /\ bbox_mode
             /\ is_drawing
             /\ DraggedRectangle(start_point, end_point) # <<>>
             /\ DraggedRectangle(start_point, end_point)[1].width >= 10
             /\ DraggedRectangle(start_point, end_point)[1].height >= 10
             /\ answer[1].track_id \notin current_frame_track_ids
             /\ MouseReleaseLeft(answer))
            => BoxAppended(DraggedRectangle(start_point, end_point)[1], answer[1]) ]_vars

\* The converted annotations match the box store: the same frame keys, and per frame
\* the same number of records in the same order, each with the type and id of its
\* box and a rectangle inside the original frame.
SavedMatchesStore ==
    /\ DOMAIN saved[1] = DOMAIN frame_bboxes
    /\ \A f \in DOMAIN frame_bboxes :
           /\ Len(saved[1][f]) = Len(frame_bboxes[f])
           /\ \A i \in 1 .. Len(frame_bboxes[f]) :
                  LET rec == saved[1][f][i]
                      box == heap[frame_bboxes[f][i]]
                  IN  /\ rec.object_type = box.object_type
                      /\ rec.track_id = box.track_id
                      /\ 0 <= rec.pixel_coords.x
                      /\ 0 <= rec.pixel_coords.y
                      /\ rec.pixel_coords.width >= 1
                      /\ rec.pixel_coords.height >= 1
                      /\ rec.pixel_coords.x + rec.pixel_coords.width <= original_width
                      /\ rec.pixel_coords.y + rec.pixel_coords.height <= original_height

\* C9: get_current_annotation_with_qa produces, for every frame key of frame_bboxes,
\* a list of the same length and order as the stored list, record i carrying the
\* object type and track id of stored box i and a rectangle in original-video
\* pixels; the stored boxes are left unchanged by saving.
C9_OneRecordPerBox ==
    [][ saved' # <<>> => (SavedMatchesStore' /\ UNCHANGED boxVars) ]_vars

\* C9 witness: a 360 session saved with two frame keys, two boxes on frame 0 (the
\* first across the left seam) and one on frame 1.
C9_Witness ==
    /\ is_360_mode
    /\ saved # <<>>
    /\ DOMAIN frame_bboxes = {0, 1}
    /\ Len(saved[1][0]) = 2
    /\ Len(saved[1][1]) = 1
    /\ StraddlesLeftSeam(heap[frame_bboxes[0][1]])
    /\ saved[1][0][1].track_id # saved[1][0][2].track_id

----------------------------------------------------------------------------
(* Claims about the saved BFoV record and the display (SpecGeom, SpecFresh).*)

\* C11 (BFoV range): for every record saved in 360 mode from a stored box that
\* satisfies the box record invariant, the bfov fields satisfy -pi < phi <= pi,
\* -pi/2 <= theta <= pi/2, width_angle > 0 and height_angle > 0, and phi_degrees
\* and theta_degrees are phi and theta in degrees (180 / pi times the radians).
C11_BFoVRange ==
    (fn_op = "convert_bbox_for_save" /\ is_360_mode) =>
        /\ "bfov" \in DOMAIN fn_out
        /\ RLt(RInt(-1), fn_out.bfov.phi) /\ RLe(fn_out.bfov.phi, RInt(1))
        /\ RLe(Rat(-1, 2), fn_out.bfov.theta) /\ RLe(fn_out.bfov.theta, Rat(1, 2))
        /\ RLt(RInt(0), fn_out.bfov.width_angle)
        /\ RLt(RInt(0), fn_out.bfov.height_angle)
        /\ fn_out.bfov.phi_degrees = Rat(180 * fn_out.bfov.phi.n, fn_out.bfov.phi.d)
        /\ fn_out.bfov.theta_degrees = Rat(180 * fn_out.bfov.theta.n, fn_out.bfov.theta.d)

\* A box of the left padding band, in the lower part of the frame, was saved: its
\* longitude is in the right half of the sphere and its latitude below the equator.
C11_Witness ==
    /\ fn_op = "convert_bbox_for_save"
    /\ is_360_mode
    /\ fn_in.x + fn_in.width <= padding_width
    /\ fn_in.y > 0
    /\ "bfov" \in DOMAIN fn_out
    /\ RLt(RInt(0), fn_out.bfov.phi)
    /\ RLt(fn_out.bfov.theta, RInt(0))
    /\ RLt(RInt(90), fn_out.bfov.phi_degrees)

\* C12 (Scale-factor invariant): whenever a frame is loaded, after every frame
\* change, canvas resize and 360-mode change, scale_factor is the smaller of
\* canvas_width / image_width and canvas_height / image_height for the current
\* canvas size and the displayed image size (padded width x original height in 360
\* mode); for canvas (1920, 1080) and padded image (5760, 2160) it is 1/3.
C12_ScaleFactorInvariant ==
    /\ ScaleFactorOf(<<5760, 2160>>, <<1920, 1080>>) = Rat(1, 3)
    /\ frame_loaded =>
           LET image_width == IF is_360_mode THEN original_width + 2 * (original_width \div 4)
                              ELSE original_width
               by_width == Rat(canvas_size[1], image_width)
               by_height == Rat(canvas_size[2], original_height)
           IN  scale_factor = IF RLe(by_width, by_height) THEN by_width ELSE by_height

\* Frame 1 of the panorama is shown in 360 mode on a canvas that was resized to
\* less than the padded width: the image is reduced and the width is what limits it.
C12_Witness ==
    /\ frame_loaded
    /\ is_360_mode
    /\ current_frame = 1
    /\ canvas_size # EditCanvasSize
    /\ scale_factor = Rat(canvas_size[1], total_width)
    /\ RLt(scale_factor, RInt(1))
    /\ RLt(scale_factor, Rat(canvas_size[2], original_height))

\* The image returned for the frame: W + 2p columns, column c the original column
\* (c - p) mod W.
WrappedLayout(image, frame) ==
    LET w == Len(frame)
        p == w \div 4
    IN  /\ Len(image) = w + 2 * p
        /\ \A c \in 0 .. w + 2 * p - 1 : image[c + 1] = frame[((c - p) % w) + 1]

\* C13 (Padded image layout): in 360 mode, for an original frame of width W with
\* padding_width p = floor(W / 4), create_360_padded_image returns an image of
\* width W + 2p whose column c is original column (c - p) mod W, for every W.
C13_PaddedImageLayout ==
    (fn_op = "create_360_padded_image" /\ is_360_mode) =>
        /\ exc = "none"
        /\ fn_out # <<>>
        /\ WrappedLayout(fn_out[1], fn_in)

\* The same layout for the frames that are at least 4 columns wide (p >= 1).
C13_LayoutFromFourColumns ==
    (fn_op = "create_360_padded_image" /\ is_360_mode /\ Len(fn_in) >= 4) =>
        /\ exc = "none"
        /\ fn_out # <<>>
        /\ WrappedLayout(fn_out[1], fn_in)

\* C14 (Non-360 pass-through): when is_360_mode is false,
\* create_360_padded_image returns its input unchanged,
\* convert_padded_to_original_coords returns exactly the stored x, y, width,
\* height, object_type and track_id, and the record convert_bbox_for_save builds
\* has pixel_coords equal to the stored box and no bfov field.
C14_FlatPassThrough ==
    ~is_360_mode =>
        /\ (fn_op = "create_360_padded_image") => fn_out = <<current_frame_data>>
        /\ (fn_op = "convert_padded_to_original_coords") =>
               /\ fn_out.x = fn_in.x /\ fn_out.y = fn_in.y
               /\ fn_out.width = fn_in.width /\ fn_out.height = fn_in.height
               /\ fn_out.object_type = fn_in.object_type
               /\ fn_out.track_id = fn_in.track_id
        /\ (fn_op = "convert_bbox_for_save") =>
               /\ fn_out.pixel_coords = [x |-> fn_in.x, y |-> fn_in.y,
                                         width |-> fn_in.width, height |-> fn_in.height]
               /\ fn_out.object_type = fn_in.object_type
               /\ fn_out.track_id = fn_in.track_id
               /\ "bfov" \notin DOMAIN fn_out

\* Outside 360 mode a box that starts left of where the padding band would end and
\* reaches the right edge of the frame was converted for saving.
C14_Witness ==
    /\ ~is_360_mode
    /\ fn_op = "convert_bbox_for_save"
    /\ 0 < fn_in.x /\ fn_in.x < original_width \div 4
    /\ fn_in.x + fn_in.width = original_width
    /\ fn_out.pixel_coords.x = fn_in.x
    /\ fn_out.pixel_coords.width = fn_in.width

\* The canvas point, after the centring offsets are subtracted, is outside
\* [0, pixmap_width) x [0, pixmap_height).
OutsidePixmap(canvas_point) ==
    LET pixmap_x == canvas_point[1] - ((canvas_size[1] - pixmap[1]) \div 2)
        pixmap_y == canvas_point[2] - ((canvas_size[2] - pixmap[2]) \div 2)
    IN  ~(0 <= pixmap_x /\ pixmap_x < pixmap[1] /\ 0 <= pixmap_y /\ pixmap_y < pixmap[2])

\* C15 (No-result conditions): canvas_to_padded_coords returns None exactly when no
\* pixmap is loaded or the point, after subtracting the centring offsets, lies
\* outside [0, pixmap_width) x [0, pixmap_height), and an integer point otherwise;
\* padded_to_canvas_coords returns None exactly when no pixmap is loaded.
C15_NoResultConditions ==
    /\ (fn_op = "canvas_to_padded_coords(fn_in)") =>
           /\ (fn_out = <<>>) <=> (pixmap = <<>> \/ OutsidePixmap(fn_in))
           /\ (fn_out # <<>>) => (fn_out \in Int \X Int)
    /\ (fn_op = "padded_to_canvas_coords") =>
           /\ (fn_out = <<>>) <=> (pixmap = <<>>)
           /\ (fn_out # <<>>) => (fn_out \in Int \X Int)

\* A pixmap is shown, centred with a margin on the left, and the pointer was on the
\* last column of that margin: no result.
C15_Witness ==
    /\ fn_op = "canvas_to_padded_coords(fn_in)"
    /\ pixmap # <<>>
    /\ x_offset > 0
    /\ fn_in[1] = x_offset - 1
    /\ fn_in[2] >= y_offset /\ fn_in[2] < y_offset + pixmap[2]
    /\ fn_out = <<>>

\* C16 (BFoV fail-fast): a call of calculate_bfov_from_original_coords or of
\* bfov_to_original_coords while is_360_mode is false ends in an error (it raises)
\* instead of returning a value to the caller.
C16_BFoVFailFast ==
    (/\ ~is_360_mode
     /\ fn_op \in {"calculate_bfov_from_original_coords", "bfov_to_original_coords(record)"})
    => exc # "none"

----------------------------------------------------------------------------
(* Claims about the annotation session (Spec, SpecFresh).                  *)

C19_ModeAgreement ==
    frame_loaded => (is_360_mode = main_is_360_mode)

\* C20 (Boundary-box width): in 360 mode, for a box with x < padding_width <
\* x + width, the width of the record convert_padded_to_original_coords returns is
\* the padding-band span (padding_width - x) plus the overflow into the main band
\* (x + width - padding_width), that is the full stored width.
C20_BoundaryBoxWidth ==
    (/\ fn_op = "convert_padded_to_original_coords"
     /\ is_360_mode
     /\ fn_in.x < padding_width
     /\ padding_width < fn_in.x + fn_in.width)
    => /\ fn_out.width = (padding_width - fn_in.x) + (fn_in.x + fn_in.width - padding_width)
       /\ fn_out.width = fn_in.width

\* The box starts in the main band and ends in the right padding band.
StraddlesRightSeam(b) ==
    padding_width <= b.x /\ b.x < main_end /\ main_end < b.x + b.width

\* C21 (Right-seam straddler flag): in 360 mode convert_padded_to_original_coords
\* returns is_boundary_box = true for every box that starts in the main band and
\* extends past main_end (padding_width <= x < main_end < x + width).
C21_RightSeamFlag ==
    (fn_op = "convert_padded_to_original_coords" /\ is_360_mode /\ StraddlesRightSeam(fn_in)) =>
        fn_out.is_boundary_box = TRUE

\* The three bands of the padded image a stored box can start in.
InLeftPadding(b) == b.x < padding_width
InMainBand(b) == padding_width <= b.x /\ b.x < main_end
InRightPadding(b) == b.x >= main_end

\* C22 (Region mapping of x): in 360 mode, for every stored box that satisfies the
\* box record invariant, the x convert_padded_to_original_coords returns is
\* original_width - padding_width + x when x < padding_width, x - padding_width
\* when padding_width <= x < main_end, and x - main_end when x >= main_end, which
\* is (x - padding_width) mod original_width; for a box that starts in the main
\* band the returned width is min(width, original_width - original_x); y is
\* returned unchanged.
C22_RegionMappingOfX ==
    (fn_op = "convert_padded_to_original_coords" /\ is_360_mode) =>
        /\ InLeftPadding(fn_in) => fn_out.x = original_width - padding_width + fn_in.x
        /\ InMainBand(fn_in) =>
               /\ fn_out.x = fn_in.x - padding_width
               /\ fn_out.width = Min(fn_in.width, original_width - fn_out.x)
        /\ InRightPadding(fn_in) => fn_out.x = fn_in.x - main_end
        /\ fn_out.x = (fn_in.x - padding_width) % original_width
        /\ fn_out.y = fn_in.y

\* A box that starts in the right padding band, one column past main_end, and below
\* the top of the frame: it is mapped to column 1 of the original frame.
C22_Witness ==
    /\ fn_op = "convert_padded_to_original_coords"
    /\ is_360_mode
    /\ fn_in.x = main_end + 1
    /\ fn_in.y > 0
    /\ fn_out.x = 1
    /\ fn_out.y = fn_in.y

SeamEquivalent(b) == [b EXCEPT !.x = b.x + original_width]

\* The box lies inside the padded image.
InsidePaddedImage(b) ==
    /\ 0 <= b.x /\ b.x + b.width <= total_width
    /\ 0 <= b.y /\ b.y + b.height <= original_height

\* C24 (Seam-equivalent boxes save identically): in 360 mode, for any two boxes
\* with the same y, width and height whose x values differ by exactly
\* original_width and which both lie inside the padded image,
\* convert_bbox_for_save produces identical pixel_coords and identical bfov fields.
C24_SeamEquivalentSave ==
    (/\ fn_op = "convert_bbox_for_save"
     /\ is_360_mode
     /\ InsidePaddedImage(fn_in)
     /\ InsidePaddedImage(SeamEquivalent(fn_in)))
    => /\ convert_bbox_for_save(SeamEquivalent(fn_in)).pixel_coords = fn_out.pixel_coords
       /\ convert_bbox_for_save(SeamEquivalent(fn_in)).bfov = fn_out.bfov

\* A box across the left seam was converted; its equivalent across the right seam
\* lies inside the padded image, and both are saved cut at the end of the frame.
C24_Witness ==
    /\ fn_op = "convert_bbox_for_save"
    /\ is_360_mode
    /\ StraddlesLeftSeam(fn_in)
    /\ InsidePaddedImage(SeamEquivalent(fn_in))
    /\ StraddlesRightSeam(SeamEquivalent(fn_in))
    /\ fn_out.pixel_coords.width < fn_in.width
    /\ convert_bbox_for_save(SeamEquivalent(fn_in)).pixel_coords = fn_out.pixel_coords

\* The box lies entirely inside one band of the padded image.
EntirelyInOneBand(b) ==
    \/ b.x + b.width <= padding_width
    \/ (padding_width <= b.x /\ b.x + b.width <= main_end)
    \/ b.x >= main_end

\* C25 (Size preservation within one band): in 360 mode, for every stored box
\* that satisfies the box record invariant and lies entirely inside one band
\* (x + width <= padding_width, or padding_width <= x and x + width <= main_end,
\* or x >= main_end), the saved pixel_coords width and height equal the stored
\* width and height; the height is preserved for every box.
C25_SizePreservedInBand ==
    (fn_op = "convert_bbox_for_save" /\ is_360_mode /\ BoxRecordInvariant(fn_in)) =>
        /\ EntirelyInOneBand(fn_in) =>
               /\ fn_out.pixel_coords.width = fn_in.width
               /\ fn_out.pixel_coords.height = fn_in.height
        /\ fn_out.pixel_coords.height = fn_in.height

\* A box that fills the main band from seam to seam and reaches the bottom of the
\* frame was saved with its stored size.
C25_Witness ==
    /\ fn_op = "convert_bbox_for_save"
    /\ is_360_mode
    /\ fn_in.x = padding_width
    /\ fn_in.x + fn_in.width = main_end
    /\ fn_in.y > 0
    /\ fn_in.y + fn_in.height = original_height
    /\ fn_out.pixel_coords.width = original_width
    /\ fn_out.pixel_coords.height = fn_in.height

\* C26 (Mirror Case D): in 360 mode, for a box that spans main_start
\* (x < main_start < x + width) or main_end (x < main_end < x + width),
\* get_simple_mirrors emits an additional mirror that covers only the part of the
\* box on the padding-band side of the seam: its width is the width of that part
\* and its position is that part shifted by +original_width (main_start) or
\* -original_width (main_end).
C26_MirrorCaseD ==
    (fn_op = "get_simple_mirrors" /\ is_360_mode) =>
        /\ (fn_in.x < main_start /\ main_start < fn_in.x + fn_in.width) =>
               \E k \in 1 .. Len(fn_out) :
                   /\ fn_out[k].x = fn_in.x + original_width
                   /\ fn_out[k].width = main_start - fn_in.x
        /\ (fn_in.x < main_end /\ main_end < fn_in.x + fn_in.width) =>
               \E k \in 1 .. Len(fn_out) :
                   /\ fn_out[k].x = main_end - original_width
                   /\ fn_out[k].width = (fn_in.x + fn_in.width) - main_end

\* The box spans main_start or main_end.
StraddlesSeam(b) ==
    \/ (b.x < main_start /\ main_start < b.x + b.width)
    \/ (b.x < main_end /\ main_end < b.x + b.width)

\* The mirror of box b at column mx: the source's y, width, height, object_type
\* and track_id.
ShiftedCopy(b, mx) == [b EXCEPT !.x = mx]

\* C27 (Mirror positions, Cases A-C): in 360 mode, for a box that does not
\* straddle main_start or main_end, get_simple_mirrors returns exactly one mirror
\* at x + original_width when the box is in the left padding band; exactly one
\* mirror at x - original_width when x >= main_end; for a box in the main band a
\* mirror at x + original_width iff x - main_start < padding_width and a mirror at
\* x - original_width iff main_end - (x + width) < padding_width, and no mirror
\* otherwise; every mirror has the source's y, width, height, object_type and
\* track_id.
C27_MirrorPositions ==
    (fn_op = "get_simple_mirrors" /\ is_360_mode /\ ~StraddlesSeam(fn_in)) =>
        LET right == ShiftedCopy(fn_in, fn_in.x + original_width)
            left == ShiftedCopy(fn_in, fn_in.x - original_width)
            mirrors == { fn_out[k] : k \in 1 .. Len(fn_out) }
        IN  /\ InLeftPadding(fn_in) => fn_out = <<right>>
            /\ InRightPadding(fn_in) => fn_out = <<left>>
            /\ InMainBand(fn_in) =>
                   /\ (right \in mirrors) <=> (fn_in.x - main_start < padding_width)
                   /\ (left \in mirrors) <=> (main_end - (fn_in.x + fn_in.width) < padding_width)
                   /\ mirrors \subseteq {left, right}
                   /\ Len(fn_out) = Cardinality(mirrors)

\* A box inside the main band, less than padding_width from main_end and more than
\* padding_width from main_start: its only mirror is one original_width to the left.
C27_Witness ==
    /\ fn_op = "get_simple_mirrors"
    /\ is_360_mode
    /\ InMainBand(fn_in)
    /\ fn_in.x - main_start >= padding_width
    /\ fn_in.x + fn_in.width < main_end
    /\ main_end - (fn_in.x + fn_in.width) < padding_width
    /\ fn_out = <<ShiftedCopy(fn_in, fn_in.x - original_width)>>

----------------------------------------------------------------------------
(* Claims about painting and about edit gestures (SpecPaint, Spec).        *)

\* The mirrors among the boxes the last paintEvent handed to the painter.
PaintedMirrors(drawn) == { drawn[k].bbox : k \in { j \in 1 .. Len(drawn) : ~drawn[j].is_original } }

\* The box records of every frame's list.
StoredRecords(h, fb) == UNION { { h[fb[f][i]] : i \in 1 .. Len(fb[f]) } : f \in DOMAIN fb }

\* C28 (Mirrors are display-only): get_simple_mirrors modifies neither its input
\* box nor frame_bboxes and returns an empty list when is_360_mode is false, and
\* after any sequence of draw, paint (draw_existing_bboxes) and save operations no
\* mirror box is an element of frame_bboxes or of the saved records: a paint
\* leaves the box store as it was, hands the painter every stored box of the
\* current frame and only mirrors that are not stored, and a save produces one
\* record per stored box, the conversion of that box.
C28_MirrorsDisplayOnly ==
    [][ /\ (~is_360_mode) => \A id \in DOMAIN heap : get_simple_mirrors(heap[id]) = <<>>
        /\ (fn_op' = "paintEvent") =>
               /\ UNCHANGED boxVars
               /\ (~is_360_mode) => PaintedMirrors(fn_out') = {}
               /\ PaintedMirrors(fn_out') \cap StoredRecords(heap', frame_bboxes') = {}
               /\ Len(SelectSeq(fn_out', LAMBDA d : d.is_original))
                      = (IF HasFrame(current_frame) THEN Len(frame_bboxes[current_frame]) ELSE 0)
        /\ (saved' # <<>>) =>
               /\ UNCHANGED boxVars
               /\ DOMAIN saved'[1] = DOMAIN frame_bboxes
               /\ \A f \in DOMAIN frame_bboxes :
                      /\ Len(saved'[1][f]) = Len(frame_bboxes[f])
                      /\ \A i \in 1 .. Len(frame_bboxes[f]) :
                             saved'[1][f][i] = convert_bbox_for_save(heap[frame_bboxes[f][i]]) ]_vars

\* In a 360 session the stored box was dragged to the left end of the padded
\* image and the canvas painted: the box and a mirror went to the painter, and
\* the frame's list still holds the one box.
C28_Witness ==
    /\ fn_op = "paintEvent"
    /\ is_360_mode
    /\ EditedWith("move")
    /\ heap[selected_bbox].x = 0
    /\ PaintedMirrors(fn_out) # {}
    /\ Len(SelectSeq(fn_out, LAMBDA d : d.is_original)) = 1
    /\ frame_bboxes[current_frame] = <<selected_bbox>>

\* clamp(v, lo, hi)
Clamp(v, lo, hi) == IF v < lo THEN lo ELSE IF v > hi THEN hi ELSE v

\* A pointer move to canvas point p is a step of a move gesture, with the pointer
\* over the displayed image.
MoveStep(p) ==
    /\ bbox_mode
    /\ ~is_drawing
    /\ edit_mode
    /\ selected_bbox # 0
    /\ resize_handle = "move"
    /\ canvas_to_padded_coords(p) # <<>>
    /\ mouseMoveEvent(p)

NoResult(canvas_point) == pixmap = <<>> \/ OutsidePixmap(canvas_point)

\* The step is a mouse event of the canvas.
MouseEvent ==
    \/ \E p \in PointerPoints, ctrl \in BOOLEAN : MousePressLeft(p, ctrl)
    \/ \E p \in PointerPoints : MousePressRight(p)
    \/ \E p \in PointerPoints \cup DrawPoints : mouseMoveEvent(p)
    \/ \E answer \in DialogAnswers : MouseReleaseLeft(answer)

\* C30 (No-result events are ignored): when canvas_to_padded_coords returns None
\* for the pointer position (pointer outside the displayed image or no image
\* loaded), a move step, a resize step and a draw completion each leave every box
\* record in frame_bboxes unchanged and raise no error; mouse events received
\* while bbox_mode is false also leave frame_bboxes unchanged.
C30_NoResultIgnored ==
    [][ /\ \A p \in PointerPoints :
               (/\ bbox_mode /\ ~is_drawing /\ edit_mode /\ selected_bbox # 0
                /\ NoResult(p)
                /\ mouseMoveEvent(p))
               => (UNCHANGED boxVars /\ exc' = "none")
        /\ \A answer \in DialogAnswers :
               (/\ bbox_mode /\ is_drawing
                /\ (NoResult(start_point) \/ NoResult(end_point))
                /\ MouseReleaseLeft(answer))
               => (UNCHANGED boxVars /\ exc' = "none")
        /\ (~bbox_mode /\ MouseEvent) => (UNCHANGED boxVars /\ exc' = "none") ]_vars

\* The stored box was moved, then a draw gesture was taken off the displayed image
\* and the button released: no report, no error, the list still holds the box, and
\* nothing is selected.
C30_Witness ==
    /\ bbox_mode
    /\ ~left_down
    /\ ~is_drawing
    /\ ~edit_mode
    /\ selected_bbox = 0
    /\ exc = "none"
    /\ printed = <<>>
    /\ HasFrame(0)
    /\ frame_bboxes[0] = <<1>>
    /\ heap[1] # SeedBox("person_001")
    /\ heap[1].width = SeedBox("person_001").width
    /\ heap[1].height = SeedBox("person_001").height

====
